---- MODULE Spec2Model ----
(***************************************************************************)
(* Verification model of the music generation core of quill-content-suite: *)
(*   app/services/music_service.py  (PremiumMusicEngine,                   *)
(*                                   PremiumMusicGenerator)                *)
(*   app/audio/engine.py            (generate_full_track)                  *)
(*                                                                         *)
(* Python strings are TLA+ strings built by concatenation; an Optional     *)
(* value is a sequence of length 0 (None) or 1.  Audio buffers are kept on *)
(* a coarse grid of BufLen slots (one slot per pattern step); a buffer is  *)
(* a record [n, d] holding the exact rational samples n[i] / d.  Raw       *)
(* amplitudes are in tenths of full scale.  Sample counts (num_samples)    *)
(* are computed at the real rate of 44100 samples per second.              *)
(***************************************************************************)
EXTENDS Integers, Sequences, FiniteSets, TLC

(* ------------------------------ bounds --------------------------------- *)
BufLen == 6
WinSlots == 1
RngPeriod == 5
MaxJobs == 2
MaxPasses == 2

Seeds == {0, 1}
Salts == {0, 1}

(* --------------------------- program constants ------------------------- *)
SAMPLE_RATE == 44100
BARS == 8
BEATS_PER_BAR == 4
MAX_DURATION == 60
DEFAULT_SECTION_BARS == 8

(* ------------------------------ helpers -------------------------------- *)
None == <<>>
Some(x) == <<x>>
IsNone(o) == o = <<>>

Abs(x) == IF x < 0 THEN -x ELSE x
Min(a, b) == IF a < b THEN a ELSE b
Max(a, b) == IF a > b THEN a ELSE b

RECURSIVE SeqMax(_)
SeqMax(s) == IF s = <<>> THEN 0 ELSE Max(Abs(Head(s)), SeqMax(Tail(s)))

RECURSIVE SeqSum(_)
SeqSum(s) == IF s = <<>> THEN 0 ELSE Head(s) + SeqSum(Tail(s))

RECURSIVE Join(_, _)
Join(words, sep) ==
    IF words = <<>> THEN ""
    ELSE IF Len(words) = 1 THEN words[1]
    ELSE words[1] \o sep \o Join(Tail(words), sep)

Range(s) == {s[i] : i \in 1..Len(s)}

(* str.lower() on the words the model uses *)
Lower(w) ==
    CASE w = "Depeche" -> "depeche" [] w = "Mode" -> "mode"
      [] w = "Gary" -> "gary" [] w = "Numan" -> "numan"
      [] w = "Kraftwerk" -> "kraftwerk"
      [] w = "New" -> "new" [] w = "Order" -> "order"
      [] w = "Pet" -> "pet" [] w = "Shop" -> "shop" [] w = "Boys" -> "boys"
      [] w = "The" -> "the" [] w = "Human" -> "human" [] w = "League" -> "league"
      [] w = "Unknown" -> "unknown" [] w = "Band" -> "band"
      [] w = "Linkin" -> "linkin" [] w = "Park" -> "park"
      [] w = "Eminem" -> "eminem" [] w = "TikTok" -> "tiktok"
      [] w = "Slow" -> "slow" [] w = "Background" -> "background"
      [] w = "Intro" -> "intro" [] w = "Verse" -> "verse"
      [] w = "Chorus" -> "chorus" [] w = "Bridge" -> "bridge"
      [] w = "Outro" -> "outro" [] w = "Solo" -> "solo"
      [] OTHER -> w

(* ---------------------- ARTIST_DATABASE (registry) --------------------- *)
Profile(lo, hi, instr, era, mood, bass, synth, drum, sc, gr) ==
    [tempo_range |-> <<lo, hi>>, instruments |-> instr, production_era |-> era,
     mood |-> mood, bass_style |-> bass, synth_type |-> synth,
     drum_machine |-> drum, use_sidechain |-> sc, use_gated_reverb |-> gr]

ARTIST_DATABASE ==
    [depeche_mode |-> Profile(110, 125, <<"analog_synth", "808", "sequencer", "bass_synth">>,
                              "mid_80s_digital", "dark", "sequenced", "dark_analog", "808", TRUE, TRUE),
     gary_numan |-> Profile(115, 130, <<"moog", "prophet5", "909", "arpeggiator">>,
                            "early_80s_analog", "dystopian", "analog_moog", "metallic", "909", FALSE, FALSE),
     kraftwerk |-> Profile(120, 130, <<"vocoder", "808", "sequencer", "arpeggiator">>,
                           "early_80s_analog", "mechanical", "sequenced", "precise", "808", FALSE, FALSE),
     new_order |-> Profile(115, 128, <<"dx7", "808", "sequencer", "bass_guitar">>,
                           "mid_80s_digital", "melancholic", "driving", "bright_digital", "808", TRUE, TRUE),
     pet_shop_boys |-> Profile(118, 125, <<"dx7", "linn_drum", "sequencer", "bass_synth">>,
                               "mid_80s_digital", "sophisticated", "synth_bass", "polished_digital", "linn_drum", TRUE, TRUE),
     human_league |-> Profile(110, 120, <<"roland_system", "linn_drum", "sequencer", "bass_synth">>,
                              "early_80s_analog", "romantic", "synth_bass", "warm_analog", "linn_drum", FALSE, TRUE),
     omd |-> Profile(115, 125, <<"mellotron", "808", "sequencer", "bass_synth">>,
                     "early_80s_analog", "atmospheric", "melodic", "orchestral", "808", FALSE, TRUE),
     tears_for_fears |-> Profile(100, 115, <<"prophet5", "linn_drum", "arpeggiator", "bass_synth">>,
                                 "mid_80s_digital", "emotive", "powerful", "lush_analog", "linn_drum", TRUE, TRUE),
     eurythmics |-> Profile(108, 122, <<"dx7", "808", "sequencer", "bass_synth">>,
                            "mid_80s_digital", "powerful", "driving", "sharp_digital", "808", TRUE, TRUE),
     yazoo |-> Profile(112, 125, <<"moog", "808", "sequencer", "bass_synth">>,
                       "early_80s_analog", "uplifting", "analog_moog", "warm_analog", "808", FALSE, FALSE)]

ArtistKeys == DOMAIN ARTIST_DATABASE

DEFAULT_ARTIST == "depeche_mode"

(* artist.lower().replace(" ", "_").replace("the_", ""): an artist name is *)
(* a sequence of words; a word "the" followed by another word disappears.  *)
RECURSIVE DropThe(_)
DropThe(ws) ==
    IF Len(ws) <= 1 THEN ws
    ELSE IF Head(ws) = "the" THEN DropThe(Tail(ws))
    ELSE <<Head(ws)>> \o DropThe(Tail(ws))

NormKey(name) == Join(DropThe([i \in 1..Len(name) |-> Lower(name[i])]), "_")

(* the loop that keeps the names found in the registry, with the fallback  *)
RECURSIVE KnownKeys(_)
KnownKeys(names) ==
    IF names = <<>> THEN <<>>
    ELSE LET k == NormKey(Head(names))
         IN  (IF k \in ArtistKeys THEN <<k>> ELSE <<>>) \o KnownKeys(Tail(names))

ResolveKeys_ReplaceUnknown(names) ==
    [i \in 1..Len(names) |->
        IF NormKey(names[i]) \in ArtistKeys THEN NormKey(names[i]) ELSE DEFAULT_ARTIST]

ResolveKeys(names) ==
    IF KnownKeys(names) = <<>> THEN <<DEFAULT_ARTIST>> ELSE KnownKeys(names)

(* ------------------------------ requests ------------------------------- *)
(* MusicGenerateRequest as PremiumMusicGenerator reads it.  An artist name *)
(* and a section name are sequences of words (the string is the words      *)
(* joined by one space); reference_text is Some(sequence of words).        *)
Req(artists, mood, tempo, instruments, sections, ref) ==
    [artist_influences |-> artists, mood |-> mood, tempo_bpm |-> tempo,
     instruments |-> instruments, production_era |-> None,
     sections |-> sections, reference_text |-> ref]

NameStr(name) == Join(name, " ")

(* Python's "x or default" for str, int and list operands *)
OrStr(o, dflt) == IF o = <<>> THEN dflt ELSE IF o[1] = "" THEN dflt ELSE o[1]
OrInt(o, dflt) == IF o = <<>> THEN dflt ELSE IF o[1] = 0 THEN dflt ELSE o[1]
OrSeq(o, dflt) == IF o = <<>> THEN dflt ELSE IF o[1] = <<>> THEN dflt ELSE o[1]

RefStr(req) ==
    IF req.reference_text = <<>> THEN "" ELSE NameStr(req.reference_text[1])

ArtistStrs(req) ==
    [i \in 1..Len(req.artist_influences) |-> NameStr(req.artist_influences[i])]

(* hashlib.md5(s).hexdigest()[:12]: a fixed function of the input string,  *)
(* taken to be free of collisions.                                          *)
Md5Hex12(s) == "md5(" \o s \o ")"

(* the built-in hash() of a str: a function of the string and of the hash  *)
(* salt the interpreter draws when the process starts                       *)
PyHash(salt, s) == salt + Len(s)

(* int(np.mean(xs)) on positive integers *)
IntMean(xs) == SeqSum(xs) \div Len(xs)

PrimaryKey(req) == ResolveKeys(req.artist_influences)[1]
PrimaryProfile(req) == ARTIST_DATABASE[PrimaryKey(req)]

SongMood(req) == OrStr(req.mood, PrimaryProfile(req).mood)

SongTrackId(req) ==
    Md5Hex12(Join(ArtistStrs(req), "_") \o SongMood(req) \o RefStr(req))

AverageTempo_PrimaryOnly(keys) ==
    (ARTIST_DATABASE[keys[1]].tempo_range[1] + ARTIST_DATABASE[keys[1]].tempo_range[2]) \div 2

AverageTempo(keys) ==
    LET avg_min == IntMean([i \in 1..Len(keys) |-> ARTIST_DATABASE[keys[i]].tempo_range[1]])
        avg_max == IntMean([i \in 1..Len(keys) |-> ARTIST_DATABASE[keys[i]].tempo_range[2]])
    IN  (avg_min + avg_max) \div 2

SongTempo(req) ==
    IF OrInt(req.tempo_bpm, 0) # 0 THEN req.tempo_bpm[1]
    ELSE AverageTempo(ResolveKeys(req.artist_influences))

MergedInstruments(keys) ==
    UNION {Range(ARTIST_DATABASE[keys[i]].instruments) : i \in 1..Len(keys)}

SongInstruments(req) ==
    IF OrSeq(req.instruments, <<>>) # <<>> THEN Range(req.instruments[1])
    ELSE MergedInstruments(ResolveKeys(req.artist_influences))

SongEra(req) == OrStr(req.production_era, PrimaryProfile(req).production_era)

ARTIST_VOCAL_STYLES ==
    [depeche_mode |-> [gender |-> "male", tone |-> "baritone", energy |-> "medium"],
     gary_numan |-> [gender |-> "male", tone |-> "detached", energy |-> "medium"],
     kraftwerk |-> [gender |-> "male", tone |-> "robotic", energy |-> "low"],
     new_order |-> [gender |-> "male", tone |-> "melancholic", energy |-> "medium"],
     pet_shop_boys |-> [gender |-> "male", tone |-> "smooth", energy |-> "medium"],
     human_league |-> [gender |-> "mixed", tone |-> "romantic", energy |-> "medium"],
     omd |-> [gender |-> "male", tone |-> "atmospheric", energy |-> "medium"],
     tears_for_fears |-> [gender |-> "male", tone |-> "emotive", energy |-> "high"],
     eurythmics |-> [gender |-> "female", tone |-> "powerful", energy |-> "high"],
     yazoo |-> [gender |-> "female", tone |-> "soulful", energy |-> "high"]]

MOOD_MODIFIERS ==
    {"dark", "dystopian", "melancholic", "romantic", "atmospheric",
     "uplifting", "sophisticated", "emotive", "powerful", "mechanical"}

ToneMod(mood) == IF mood \in MOOD_MODIFIERS THEN mood ELSE "dark"

SongVocalStyle(req) ==
    LET base == ARTIST_VOCAL_STYLES[PrimaryKey(req)]
    IN  [gender |-> base.gender,
         tone |-> ToneMod(SongMood(req)) \o " " \o base.tone,
         energy |-> base.energy]

(* ------------------------- title, hook, sections ----------------------- *)
MOOD_WORDS ==
    [dark |-> "Shadows", dystopian |-> "Machines", melancholic |-> "Memory",
     romantic |-> "Hearts", atmospheric |-> "Space", uplifting |-> "Rising",
     sophisticated |-> "Velvet", emotive |-> "Feelings", powerful |-> "Force",
     mechanical |-> "Precision"]

SYNTH_WORDS == <<"Frequency", "Pulse", "Circuit", "Voltage", "Signal">>

(* str.capitalize() on the words the model uses *)
Capitalize(w) ==
    CASE w = "like" -> "Like" [] w = "dystopian" -> "Dystopian"
      [] w = "future" -> "Future" [] w = "cityscape" -> "Cityscape"
      [] w = "neon" -> "Neon" [] w = "rain" -> "Rain"
      [] OTHER -> w

RECURSIVE LongWords(_)
LongWords(ws) ==
    IF ws = <<>> THEN <<>>
    ELSE (IF Len(Head(ws)) > 3 THEN <<Capitalize(Head(ws))>> ELSE <<>>)
         \o LongWords(Tail(ws))

(* s[:40]; the requests of the model keep titles under 40 characters *)
Take40(s) == IF Len(s) <= 40 THEN s ELSE "<first 40 characters>"

GenerateTitle(salt, req) ==
    IF req.reference_text # <<>> /\ Len(RefStr(req)) > 10
    THEN LET ws == req.reference_text[1]
         IN  Take40(Join(LongWords(SubSeq(ws, 1, Min(4, Len(ws)))), " "))
    ELSE LET mood == SongMood(req)
             mood_word == IF mood \in DOMAIN MOOD_WORDS THEN MOOD_WORDS[mood] ELSE "Synth"
             synth_word == SYNTH_WORDS[(PyHash(salt, ArtistStrs(req)[1]) % Len(SYNTH_WORDS)) + 1]
         IN  mood_word \o " " \o synth_word

HookTemplates(mood) ==
    <<"Lost in the " \o mood \o " frequency",
      "Running through these " \o mood \o " nights",
      "Feel the " \o mood \o " pulse",
      "We're " \o mood \o " and electric",
      "Dancing in the " \o mood \o " light">>

GenerateHook(salt, req) ==
    LET mood == SongMood(req)
        idx == PyHash(salt, Join(ArtistStrs(req), "_") \o mood) % Len(HookTemplates(mood))
    IN  HookTemplates(mood)[idx + 1]

DEFAULT_SECTIONS ==
    <<<<"Intro">>, <<"Verse", "1">>, <<"Chorus">>, <<"Verse", "2">>,
      <<"Bridge">>, <<"Chorus">>, <<"Outro">>>>

(* "kw in section_lower", taken word by word *)
HasWord(name, kw) == \E i \in 1..Len(name) : Lower(name[i]) = kw

SectionClass(name) ==
    IF HasWord(name, "intro") THEN "intro"
    ELSE IF HasWord(name, "verse") THEN "verse"
    ELSE IF HasWord(name, "chorus") THEN "chorus"
    ELSE IF HasWord(name, "bridge") THEN "bridge"
    ELSE IF HasWord(name, "outro") THEN "outro"
    ELSE "generic"

(* a name of no class given the bars of a verse *)
SectionBars_GenericAsVerse(name) ==
    CASE SectionClass(name) = "intro" -> 8
      [] SectionClass(name) = "verse" -> 16
      [] SectionClass(name) = "chorus" -> 16
      [] SectionClass(name) = "bridge" -> 8
      [] SectionClass(name) = "outro" -> 8
      [] OTHER -> 16

SectionBars(name) ==
    CASE SectionClass(name) = "intro" -> 8
      [] SectionClass(name) = "verse" -> 16
      [] SectionClass(name) = "chorus" -> 16
      [] SectionClass(name) = "bridge" -> 8
      [] SectionClass(name) = "outro" -> 8
      [] OTHER -> 12

VerseNum(name) ==
    IF (\E i \in 1..(Len(name) - 1) : Lower(name[i]) = "verse" /\ name[i + 1] = "1")
       \/ (Len(name) = 1 /\ Lower(name[1]) = "verse")
    THEN "1" ELSE "2"

SectionLyrics(name) ==
    CASE SectionClass(name) = "intro" -> "[Instrumental with ambient synths]"
      [] SectionClass(name) = "verse" -> "verse " \o VerseNum(name)
      [] SectionClass(name) = "chorus" -> "chorus"
      [] SectionClass(name) = "bridge" -> "bridge"
      [] SectionClass(name) = "outro" -> "[Instrumental fade with synth echoes]"
      [] OTHER -> "verse 1"

GenerateSections_SkipGeneric(section_names) ==
    LET known == SelectSeq(section_names, LAMBDA nm : SectionClass(nm) # "generic")
    IN  [i \in 1..Len(known) |->
            [name |-> NameStr(known[i]),
             bars |-> SectionBars(known[i]),
             lyrics |-> SectionLyrics(known[i])]]

GenerateSections(section_names) ==
    [i \in 1..Len(section_names) |->
        [name |-> NameStr(section_names[i]),
         bars |-> SectionBars(section_names[i]),
         lyrics |-> SectionLyrics(section_names[i])]]

SongSections(req) == GenerateSections(OrSeq(req.sections, DEFAULT_SECTIONS))

(* everything generate_song computes before it renders the audio *)
Blueprint(salt, req) ==
    [track_id |-> SongTrackId(req),
     title |-> GenerateTitle(salt, req),
     artist_influences |-> ArtistStrs(req),
     instruments |-> SongInstruments(req),
     production_era |-> SongEra(req),
     mood |-> SongMood(req),
     tempo_bpm |-> SongTempo(req),
     vocal_style |-> SongVocalStyle(req),
     hook |-> GenerateHook(salt, req),
     sections |-> SongSections(req),
     audio_url |-> ""]

(* ------------------------------ buffers -------------------------------- *)
(* Buf(n, d): the samples n[i] / d, d a positive multiple of 20.  Raw      *)
(* voices are in twentieths of full scale (d = 20).                        *)
Buf(n, d) == [n |-> n, d |-> d]
Silence == Buf([i \in 1..BufLen |-> 0], 20)
NoBuf == Buf(<<>>, 20)

Slots == 1..BufLen

(* a + b, brought to the common denominator (a.d / 20) * b.d *)
AddBuf(a, b) ==
    Buf([i \in 1..Len(a.n) |-> a.n[i] * (b.d \div 20) + b.n[i] * (a.d \div 20)],
        (a.d \div 20) * b.d)

(* b scaled by num / den *)
ScaleBuf(b, num, den) == Buf([i \in 1..Len(b.n) |-> b.n[i] * num], b.d * den)

(* np.max(np.abs(b)) <= 0.85, exactly *)
PeakOK(b) == \A i \in 1..Len(b.n) : Abs(b.n[i]) <= 17 * (b.d \div 20)

(* the two buffers hold the same sample values *)
SameAudio(a, b) ==
    /\ Len(a.n) = Len(b.n)
    /\ \A i \in 1..Len(a.n) : a.n[i] * b.d = b.n[i] * a.d

(* ------------------- the process-wide numpy generator ------------------- *)
(* np.random.randn draws from the global generator, which the process      *)
(* seeds from the operating system when it starts; nothing reseeds it.     *)
RngAt(r, k) == (r + k) % RngPeriod
NoiseVal(r) == (r % 3) - 1

(* ---------------------------- drum sequencer --------------------------- *)
(* slot j (1-based) is pattern step j - 1 *)
Hit(pattern, j) == pattern[((j - 1) % Len(pattern)) + 1] = 1
HitsBefore(pattern, j) == Cardinality({k \in 1..(j - 1) : Hit(pattern, k)})
HitCount(pattern) == HitsBefore(pattern, BufLen + 1)

KickTone(drum_machine) ==
    IF drum_machine = "808" THEN 20 ELSE IF drum_machine = "909" THEN 19 ELSE 17

SnareTone(drum_machine) ==
    IF drum_machine = "808" THEN 9 ELSE IF drum_machine = "909" THEN 3 ELSE 2

SnareNoiseGain(drum_machine) ==
    IF drum_machine = "808" THEN 3 ELSE 6

HihatNoiseGain == 3

(* one track of the drum kit; first is the number of draws made before it *)
DrumTrack(pattern, tone, gain, r, first) ==
    Buf([j \in Slots |->
            IF Hit(pattern, j)
            THEN tone + gain * NoiseVal(RngAt(r, first + HitsBefore(pattern, j)))
            ELSE 0], 20)

GenerateKick(pattern, drum_machine, r, first) ==
    DrumTrack(pattern, KickTone(drum_machine), 1, r, first)

GenerateSnare(pattern, drum_machine, r, first) ==
    DrumTrack(pattern, SnareTone(drum_machine), SnareNoiseGain(drum_machine), r, first)

GenerateHihat(pattern, r, first) ==
    DrumTrack(pattern, 0, HihatNoiseGain, r, first)

(* ------------------------ _resolve_artist_params ------------------------ *)
GetDrumPatterns(mood) ==
    IF mood \in {"dark", "dystopian", "atmospheric"}
    THEN [kick |-> <<1, 0, 0, 0, 1, 0, 1, 0>>, snare |-> <<0, 0, 1, 0, 0, 0, 1, 0>>,
          hihat |-> <<1, 1, 1, 1, 1, 1, 1, 1>>]
    ELSE IF mood \in {"uplifting", "romantic", "emotive"}
    THEN [kick |-> <<1, 0, 0, 0, 1, 0, 0, 0>>, snare |-> <<0, 0, 1, 0, 0, 0, 1, 0>>,
          hihat |-> <<0, 1, 0, 1, 0, 1, 0, 1>>]
    ELSE IF mood \in {"mechanical", "sophisticated"}
    THEN [kick |-> <<1, 0, 0, 0, 1, 0, 0, 0>>, snare |-> <<0, 0, 1, 0, 0, 0, 1, 0>>,
          hihat |-> <<1, 1, 1, 1, 1, 1, 1, 1>>]
    ELSE [kick |-> <<1, 0, 0, 0, 1, 0, 0, 0>>, snare |-> <<0, 0, 1, 0, 0, 0, 1, 0>>,
          hihat |-> <<0, 1, 0, 1, 0, 1, 0, 1>>]

ResolveArtistParams(req) ==
    LET artist_keys == ResolveKeys(req.artist_influences)
        primary == ARTIST_DATABASE[artist_keys[1]]
        final_mood == OrStr(req.mood, primary.mood)
    IN  [artist_keys |-> artist_keys,
         instruments |-> IF OrSeq(req.instruments, <<>>) # <<>>
                         THEN Range(req.instruments[1])
                         ELSE MergedInstruments(artist_keys),
         tempo_bpm |-> AverageTempo(artist_keys),
         mood |-> final_mood,
         production_era |-> OrStr(req.production_era, primary.production_era),
         patterns |-> GetDrumPatterns(final_mood),
         drum_machine |-> primary.drum_machine,
         bass_style |-> primary.bass_style,
         bass_intensity |-> IF final_mood = "powerful" THEN 8 ELSE 7,
         synth_type |-> primary.synth_type,
         use_sidechain |-> primary.use_sidechain,
         use_gated_reverb |-> primary.use_gated_reverb]

RenderTempo(req) == OrInt(req.tempo_bpm, ResolveArtistParams(req).tempo_bpm)

(* int(bars * beats_per_bar * 60 / tempo_bpm * SAMPLE_RATE) *)
BackingNumSamples(tempo_bpm) ==
    (BARS * BEATS_PER_BAR * 60 * SAMPLE_RATE) \div tempo_bpm

GenerateBass(bass_style, intensity) ==
    Buf([j \in Slots |-> IF bass_style = "sequenced" THEN (intensity * 6) \div 10
                          ELSE intensity], 20)

GenerateSynth(synth_type) ==
    Buf([j \in Slots |-> IF synth_type \in {"metallic", "precise"} THEN 4 ELSE 5], 20)

GenerateArp == Buf([j \in Slots |-> IF j % 2 = 1 THEN 2 ELSE -2], 20)

(* kick + snare + hihat + bass + synth (+ arp) *)
SumTracks(kick, snare, hihat, bass, synth, arp, with_arp) ==
    LET base == AddBuf(AddBuf(AddBuf(AddBuf(kick, snare), hihat), bass), synth)
    IN  IF with_arp THEN AddBuf(base, arp) ELSE base

(* ------------------------------- effects ------------------------------- *)
(* np.convolve(x, np.ones(w) / w, mode='same'), times w *)
BoxSum(x, w) ==
    [i \in 1..Len(x) |->
        SeqSum([m \in 1..w |->
            LET k == i + ((w - 1) \div 2) - (m - 1)
            IN  IF k >= 1 /\ k <= Len(x) THEN x[k] ELSE 0])]

(* the multiplier clip(1 - 0.4 * env / max(env), 0.3, 1.0), in units of     *)
(* 1 / (10 * top); the 1e-6 in the divisor only matters for a silent kick  *)
SidechainCurve(kick) ==
    LET env == BoxSum([i \in 1..Len(kick.n) |-> Abs(kick.n[i])], WinSlots)
        top == SeqMax(env)
    IN  [num |-> [i \in 1..Len(env) |->
                    IF top = 0 THEN 10
                    ELSE Min(Max(10 * top - 4 * env[i], 3 * top), 10 * top)],
         den |-> IF top = 0 THEN 10 ELSE 10 * top]

ApplySidechain(mix, kick) ==
    LET sc == SidechainCurve(kick)
    IN  Buf([i \in 1..Len(mix.n) |-> mix.n[i] * sc.num[i]], mix.d * sc.den)

GateLen == WinSlots

(* the tail 0.3 * snare[i] * exp(-10 k / SAMPLE_RATE) over gate_samples     *)
(* slots, halving per slot on the grid; in units of 1 / (10 * 2^(gate-1))  *)
RECURSIVE Pow2(_)
Pow2(k) == IF k <= 0 THEN 1 ELSE 2 * Pow2(k - 1)

ApplyGatedReverb(snare) ==
    LET len == Len(snare.n)
        threshold10 == SeqMax(snare.n)
        scale == 10 * Pow2(GateLen - 1)
        Loud(i) == i <= len - GateLen /\ 10 * Abs(snare.n[i]) > threshold10
    IN  Buf([j \in 1..len |->
                snare.n[j] * scale
                + SeqSum([m \in 1..GateLen |->
                            LET k == m - 1
                            IN  IF j - k >= 1 /\ Loud(j - k)
                                THEN 3 * snare.n[j - k] * Pow2(GateLen - 1 - k)
                                ELSE 0])],
            snare.d * scale)

Normalise_FullScale(mix) ==
    LET max_val == SeqMax(mix.n)
    IN  IF max_val > 0
        THEN Buf([i \in 1..Len(mix.n) |-> 20 * mix.n[i]], 20 * max_val)
        ELSE mix

(* mix / max_val * 0.85 when max_val > 0 *)
Normalise(mix) ==
    LET max_val == SeqMax(mix.n)
    IN  IF max_val > 0
        THEN Buf([i \in 1..Len(mix.n) |-> 17 * mix.n[i]], 20 * max_val)
        ELSE mix

FadeLen == WinSlots

(* np.linspace(0, 1, f)[k] and np.linspace(1, 0, f)[k], times FadeDen *)
FadeDen == Max(FadeLen - 1, 1)
FadeInNum(k) == IF FadeLen = 1 THEN 0 ELSE k
FadeOutNum(k) == IF FadeLen = 1 THEN 1 ELSE FadeDen - k

(* mix[:f] *= fade_in ; mix[-f:] *= fade_out *)
ApplyFade(mix) ==
    LET len == Len(mix.n)
        fi(j) == IF j <= FadeLen THEN FadeInNum(j - 1) ELSE FadeDen
        fo(j) == IF j > len - FadeLen THEN FadeOutNum(j - (len - FadeLen) - 1) ELSE FadeDen
    IN  Buf([j \in 1..len |-> mix.n[j] * fi(j) * fo(j)], mix.d * FadeDen * FadeDen)

(* the track id generate_backing_track names the file with *)
RenderTrackId(req) ==
    Md5Hex12(Join(ArtistStrs(req), "_") \o OrStr(req.mood, "") \o RefStr(req))

AudioUrl(track_id) == "/static/audio/music/track-" \o track_id \o ".wav"

(* --------------------- generate_full_track (engine) -------------------- *)
SECTION_DURATIONS ==
    [intro |-> 4, verse |-> 8, pre_chorus |-> 4, chorus |-> 8,
     drop |-> 8, bridge |-> 4, outro |-> 4, loop |-> 16]

SECTION_INSTRUMENTS ==
    [intro |-> {"pad", "light_drums"},
     verse |-> {"drums", "bass", "pad"},
     pre_chorus |-> {"drums", "bass", "pad", "light_lead"},
     chorus |-> {"drums", "bass", "pad", "lead"},
     drop |-> {"drums", "bass", "lead"},
     bridge |-> {"pad", "light_drums"},
     outro |-> {"pad", "light_drums"},
     loop |-> {"drums", "bass", "pad"}]

SectionDuration(name) ==
    IF Lower(name) \in DOMAIN SECTION_DURATIONS
    THEN SECTION_DURATIONS[Lower(name)] ELSE DEFAULT_SECTION_BARS

SectionInstruments(name) ==
    IF Lower(name) \in DOMAIN SECTION_INSTRUMENTS
    THEN SECTION_INSTRUMENTS[Lower(name)] ELSE {"drums", "bass", "pad"}

Plan(tempo, style, structure) ==
    [tempo_bpm |-> tempo, key |-> "C minor", artist_style |-> style,
     structure |-> structure]

TotalBars(structure) ==
    SeqSum([i \in 1..Len(structure) |-> SectionDuration(structure[i])])

FullNumSamples_NoCap(plan) ==
    (TotalBars(plan.structure) * BEATS_PER_BAR * 60 * SAMPLE_RATE) \div plan.tempo_bpm

(* int(total_duration * SAMPLE_RATE) with total_duration capped at 60 s *)
FullNumSamples(plan) ==
    LET total_bars == TotalBars(plan.structure)
    IN  IF total_bars * BEATS_PER_BAR * 60 > MAX_DURATION * plan.tempo_bpm
        THEN MAX_DURATION * SAMPLE_RATE
        ELSE (total_bars * BEATS_PER_BAR * 60 * SAMPLE_RATE) \div plan.tempo_bpm

DrumStyle(artist_style) ==
    IF artist_style \in {"depeche_mode", "new_order", "pet_shop_boys", "eurythmics", "kraftwerk"}
    THEN "808"
    ELSE IF artist_style \in {"gary_numan"} THEN "909" ELSE "808"

BassStyle(artist_style) ==
    IF artist_style \in {"gary_numan", "yazoo"} THEN "moog"
    ELSE IF artist_style \in {"depeche_mode", "kraftwerk"} THEN "sequenced"
    ELSE IF artist_style \in {"new_order", "eurythmics"} THEN "driving"
    ELSE "synth"

SynthStyle(artist_style) ==
    IF artist_style \in {"depeche_mode", "omd"} THEN "dark_analog"
    ELSE IF artist_style \in {"pet_shop_boys", "eurythmics"} THEN "bright_digital"
    ELSE IF artist_style \in {"human_league", "tears_for_fears", "yazoo"} THEN "warm_analog"
    ELSE IF artist_style = "gary_numan" THEN "metallic"
    ELSE "clean"

FullPatterns(artist_style) ==
    [kick |-> IF artist_style \in {"depeche_mode", "gary_numan"}
              THEN <<1, 0, 0, 0, 1, 0, 1, 0>> ELSE <<1, 0, 0, 0, 1, 0, 0, 0>>,
     snare |-> <<0, 0, 1, 0, 0, 0, 1, 0>>,
     hihat |-> IF artist_style = "kraftwerk"
               THEN <<1, 0, 1, 0, 1, 0, 1, 0>> ELSE <<1, 1, 1, 1, 1, 1, 1, 1>>]

GenerateBassline(bass_style) ==
    Buf([j \in Slots |-> IF bass_style = "sequenced" THEN 4 ELSE 3], 20)

GenerateChords(synth_style) ==
    Buf([j \in Slots |-> IF synth_style = "clean" THEN 5 ELSE 4], 20)

GenerateLeadMelody == Buf([j \in Slots |-> IF j % 2 = 1 THEN 2 ELSE -2], 20)

(* slots per bar on the grid *)
BarSlots == WinSlots

(* the section loop: the windows [start, end) it mixes, in slots from 0 *)
RECURSIVE SectionWindows(_, _, _)
SectionWindows(structure, current, num) ==
    IF structure = <<>> THEN <<>>
    ELSE LET want == SectionDuration(Head(structure)) * BarSlots
             len == IF current + want > num THEN num - current ELSE want
         IN  IF len <= 0 THEN <<>>
             ELSE <<[name |-> Head(structure), start |-> current, end |-> current + len]>>
                  \o SectionWindows(Tail(structure), current + len, num)

(* int(beats_per_bar * 60 * SAMPLE_RATE / tempo_bpm) *)
SamplesPerBar(tempo_bpm) ==
    (BEATS_PER_BAR * 60 * SAMPLE_RATE) \div tempo_bpm

(* the section loop without its overflow test *)
RECURSIVE SampleWindows_NoClip(_, _, _, _)
SampleWindows_NoClip(structure, samples_per_bar, current, num) ==
    IF structure = <<>> THEN <<>>
    ELSE LET section_samples == SectionDuration(Head(structure)) * samples_per_bar
         IN  IF section_samples <= 0 THEN <<>>
             ELSE <<[name |-> Head(structure), start |-> current,
                     end |-> current + section_samples]>>
                  \o SampleWindows_NoClip(Tail(structure), samples_per_bar,
                                          current + section_samples, num)

(* the section loop in samples: the slices [start, end) of the mix it adds *)
(* the tracks to (every track is num samples long, so actual_end is        *)
(* end_sample)                                                             *)
RECURSIVE SampleWindows(_, _, _, _)
SampleWindows(structure, samples_per_bar, current, num) ==
    IF structure = <<>> THEN <<>>
    ELSE LET want == SectionDuration(Head(structure)) * samples_per_bar
             section_samples == IF current + want > num THEN num - current ELSE want
         IN  IF section_samples <= 0 THEN <<>>
             ELSE <<[name |-> Head(structure), start |-> current,
                     end |-> current + section_samples]>>
                  \o SampleWindows(Tail(structure), samples_per_bar,
                                   current + section_samples, num)

SectionGain_FullVolume(name, b, j) ==
    LET ins == SectionInstruments(name)
    IN  (IF "drums" \in ins \/ "light_drums" \in ins
         THEN (10 * b.kick.n[j] + 10 * b.snare.n[j] + 7 * b.hihat.n[j]) * 10
         ELSE 0)
        + (IF "bass" \in ins THEN 100 * b.bass.n[j] ELSE 0)
        + (IF "pad" \in ins THEN 100 * b.synth.n[j] ELSE 0)
        + (IF "lead" \in ins \/ "light_lead" \in ins
           THEN 10 * b.lead.n[j] * 10 ELSE 0)

(* what one section adds to mix[j], in units of 1/2000 *)
SectionGain(name, b, j) ==
    LET ins == SectionInstruments(name)
        drum_volume == IF "light_drums" \in ins THEN 5 ELSE 10
        lead_volume == IF "light_lead" \in ins THEN 6 ELSE 10
    IN  (IF "drums" \in ins \/ "light_drums" \in ins
         THEN (10 * b.kick.n[j] + 10 * b.snare.n[j] + 7 * b.hihat.n[j]) * drum_volume
         ELSE 0)
        + (IF "bass" \in ins THEN 100 * b.bass.n[j] ELSE 0)
        + (IF "pad" \in ins THEN 100 * b.synth.n[j] ELSE 0)
        + (IF "lead" \in ins \/ "light_lead" \in ins
           THEN 10 * b.lead.n[j] * lead_volume ELSE 0)

SectionMix(structure, b) ==
    LET wins == SectionWindows(structure, 0, BufLen)
    IN  Buf([j \in Slots |->
                SeqSum([k \in 1..Len(wins) |->
                    IF wins[k].start < j /\ j <= wins[k].end
                    THEN SectionGain(wins[k].name, b, j) ELSE 0])],
            2000)

SIDECHAIN_STYLES == {"depeche_mode", "new_order", "pet_shop_boys", "eurythmics"}

(* the fade of generate_full_track: skipped on a short mix *)
ApplyFadeGuarded(mix) ==
    IF Len(mix.n) > FadeLen * 2 THEN ApplyFade(mix) ELSE mix

DelayLen == WinSlots

(* right channel: mix + 0.15 * (pads delayed by delay_samples) *)
WidenRight(mix, pads) ==
    IF Len(pads.n) = Len(mix.n)
    THEN AddBuf(mix, Buf([j \in 1..Len(pads.n) |->
                            IF j <= DelayLen THEN 0 ELSE 3 * pads.n[j - DelayLen]], 400))
    ELSE mix

(* ----------------- build_producer_plan (producer plan) ---------------- *)
(* The request as build_producer_plan and the refiner read it.  The        *)
(* influence text is an Optional sequence of words, an influence artist a  *)
(* sequence of words; "word in text" is Python's substring test.           *)
PlanReq(text, artists, usage, tempo, style) ==
    [influence_text |-> text, influence_artists |-> artists, usage_context |-> usage,
     tempo_bpm |-> tempo, artist_style |-> style, mood |-> None]

LowerWords(ws) == [i \in 1..Len(ws) |-> Lower(ws[i])]

(* (req.influence_text or "").lower() *)
PlanText(req) == LowerWords(OrSeq(req.influence_text, <<>>))

(* [a.lower() for a in (req.influence_artists or [])] *)
PlanArtists(req) ==
    [i \in 1..Len(req.influence_artists) |-> LowerWords(req.influence_artists[i])]

(* (req.usage_context or "").lower() *)
PlanUsage(req) == Lower(OrStr(req.usage_context, ""))

(* words of the vocabulary that contain another keyword as a substring *)
Within(token, word) ==
    token = word \/ <<token, word>> \in {<<"guitars", "guitar">>, <<"riffs", "riff">>}

(* phrase in " ".join(words), for a phrase of one or more words *)
HasPhrase(words, phrase) ==
    \E i \in 0..(Len(words) - Len(phrase)) :
        \A k \in 1..Len(phrase) : Within(words[i + k], phrase[k])

(* any(word in text for word in [...]) *)
AnyIn(text, keywords) == \E kw \in keywords : HasPhrase(text, kw)

(* any(name in a for a in artists) or name in text *)
Mentions(req, name) ==
    \/ \E i \in 1..Len(PlanArtists(req)) : HasPhrase(PlanArtists(req)[i], name)
    \/ HasPhrase(PlanText(req), name)


DEFAULT_STRUCTURE == <<"intro", "verse", "chorus", "verse", "chorus", "outro">>
FULL_STRUCTURE == <<"intro", "verse", "chorus", "verse", "bridge", "chorus", "outro">>

(* the conditions of the rules of build_producer_plan *)
(* the slow rule firing on the word slow alone *)
SlowRule_SlowOnly(req) == HasPhrase(PlanText(req), <<"slow">>)

SlowRule(req) ==
    AnyIn(PlanText(req), {<<"slow">>, <<"ballad">>, <<"emotional">>, <<"intimate">>})
FastRule(req) ==
    AnyIn(PlanText(req), {<<"fast">>, <<"high", "energy">>, <<"aggressive">>,
                          <<"intense">>, <<"powerful">>})
TikTokRule(req) ==
    AnyIn(PlanText(req), {<<"tiktok">>, <<"shorts">>, <<"hook">>})
    \/ PlanUsage(req) = "tiktok"
DarkRule(req) ==
    AnyIn(PlanText(req), {<<"dark">>, <<"emotional">>, <<"moody">>, <<"sad">>,
                          <<"melancholic">>, <<"heavy">>})
BrightRule(req) ==
    AnyIn(PlanText(req), {<<"bright">>, <<"uplifting">>, <<"hopeful">>, <<"happy">>,
                          <<"positive">>})
BackgroundRule(req) == PlanUsage(req) = "background"
LongRule(req) == PlanUsage(req) = "longform" \/ PlanUsage(req) = "full_song"

(* the slow cap applied after the tiktok floor instead of before it *)
BuildTempo_CapLast(req) ==
    LET t0 == OrInt(req.tempo_bpm, 100)
        t2 == IF FastRule(req) THEN Max(t0, 120) ELSE t0
        t3 == IF TikTokRule(req) THEN Max(t2, 110) ELSE t2
        t1 == IF SlowRule(req) THEN Min(t3, 90) ELSE t3
        t4 == IF Mentions(req, <<"linkin", "park">>) /\ t1 = 100 THEN 95 ELSE t1
        t5 == IF Mentions(req, <<"eminem">>) /\ t4 = 100 THEN 92 ELSE t4
    IN  IF BackgroundRule(req) THEN Min(t5, 100) ELSE t5

(* tempo_bpm through the rules, in the order of the code *)
BuildTempo(req) ==
    LET t0 == OrInt(req.tempo_bpm, 100)
        t1 == IF SlowRule(req) THEN Min(t0, 90) ELSE t0
        t2 == IF FastRule(req) THEN Max(t1, 120) ELSE t1
        t3 == IF TikTokRule(req) THEN Max(t2, 110) ELSE t2
        t4 == IF Mentions(req, <<"linkin", "park">>) /\ t3 = 100 THEN 95 ELSE t3
        t5 == IF Mentions(req, <<"eminem">>) /\ t4 = 100 THEN 92 ELSE t4
    IN  IF BackgroundRule(req) THEN Min(t5, 100) ELSE t5

(* the usage rules applied before the keyword rules *)
BuildEnergy_UsageFirst(req) ==
    LET e0 == IF BackgroundRule(req) THEN "steady" ELSE "medium"
        e1 == IF SlowRule(req) THEN "slow_build" ELSE e0
        e2 == IF FastRule(req) THEN "high" ELSE e1
        e3 == IF TikTokRule(req) THEN "hook_first" ELSE e2
    IN  IF LongRule(req) THEN "dynamic" ELSE e3

BuildEnergy(req) ==
    LET e1 == IF SlowRule(req) THEN "slow_build" ELSE "medium"
        e2 == IF FastRule(req) THEN "high" ELSE e1
        e3 == IF TikTokRule(req) THEN "hook_first" ELSE e2
        e4 == IF BackgroundRule(req) THEN "steady" ELSE e3
    IN  IF LongRule(req) THEN "dynamic" ELSE e4

(* the tiktok rule setting the hook structure *)
BuildStructure_HookList(req) ==
    LET s1 == IF TikTokRule(req) THEN <<"intro", "hook", "drop", "chorus">>
              ELSE DEFAULT_STRUCTURE
        s2 == IF BackgroundRule(req) THEN <<"loop">> ELSE s1
    IN  IF LongRule(req) THEN FULL_STRUCTURE ELSE s2

BuildStructure(req) ==
    LET s1 == IF TikTokRule(req) THEN <<"intro", "drop", "chorus", "drop">> ELSE DEFAULT_STRUCTURE
        s2 == IF BackgroundRule(req) THEN <<"loop">> ELSE s1
    IN  IF LongRule(req) THEN FULL_STRUCTURE ELSE s2

BuildKey(req) ==
    LET k1 == IF DarkRule(req) THEN "D minor" ELSE "C minor"
        k2 == IF BrightRule(req) THEN "F major" ELSE k1
        k3 == IF Mentions(req, <<"linkin", "park">>) /\ k2 = "C minor" THEN "D minor" ELSE k2
        k4 == IF Mentions(req, <<"depeche", "mode">>) THEN "A minor" ELSE k3
        k5 == IF Mentions(req, <<"gary", "numan">>) THEN "G minor" ELSE k4
        k6 == IF Mentions(req, <<"kraftwerk">>) THEN "C major" ELSE k5
    IN  IF Mentions(req, <<"pet", "shop", "boys">>) THEN "D major" ELSE k6

BuildMood(req) ==
    LET m0 == OrStr(req.mood, "neutral")
        m1 == IF DarkRule(req) THEN "dark" ELSE m0
        m2 == IF BrightRule(req) THEN "uplifting" ELSE m1
        m3 == IF Mentions(req, <<"depeche", "mode">>) THEN "dark" ELSE m2
        m4 == IF Mentions(req, <<"gary", "numan">>) THEN "dystopian" ELSE m3
        m5 == IF Mentions(req, <<"kraftwerk">>) THEN "mechanical" ELSE m4
    IN  IF Mentions(req, <<"pet", "shop", "boys">>) THEN "sophisticated" ELSE m5

(* the hybrid decided by the linkin park mention instead of artist_style *)
BuildStyle_HybridOnMention(req) ==
    LET a0 == OrStr(req.artist_style, "generic")
        a1 == IF Mentions(req, <<"linkin", "park">>) THEN "linkin_park" ELSE a0
        a2 == IF Mentions(req, <<"eminem">>)
              THEN (IF Mentions(req, <<"linkin", "park">>)
                    THEN "linkin_park_eminem_hybrid" ELSE "eminem")
              ELSE a1
        a3 == IF Mentions(req, <<"depeche", "mode">>) THEN "depeche_mode" ELSE a2
        a4 == IF Mentions(req, <<"gary", "numan">>) THEN "gary_numan" ELSE a3
        a5 == IF Mentions(req, <<"kraftwerk">>) THEN "kraftwerk" ELSE a4
    IN  IF Mentions(req, <<"pet", "shop", "boys">>) THEN "pet_shop_boys" ELSE a5

BuildStyle(req) ==
    LET a0 == OrStr(req.artist_style, "generic")
        a1 == IF Mentions(req, <<"linkin", "park">>) THEN "linkin_park" ELSE a0
        a2 == IF Mentions(req, <<"eminem">>)
              THEN (IF a1 = "linkin_park" THEN "linkin_park_eminem_hybrid" ELSE "eminem")
              ELSE a1
        a3 == IF Mentions(req, <<"depeche", "mode">>) THEN "depeche_mode" ELSE a2
        a4 == IF Mentions(req, <<"gary", "numan">>) THEN "gary_numan" ELSE a3
        a5 == IF Mentions(req, <<"kraftwerk">>) THEN "kraftwerk" ELSE a4
    IN  IF Mentions(req, <<"pet", "shop", "boys">>) THEN "pet_shop_boys" ELSE a5

BuildDrums(req) ==
    IF Mentions(req, <<"eminem">>) THEN "eminem_bounce"
    ELSE IF Mentions(req, <<"linkin", "park">>) THEN "lp_rock_drums" ELSE "generic"

BuildGuitar(req) ==
    LET g1 == IF Mentions(req, <<"linkin", "park">>) THEN Some("lp_heavy_guitars") ELSE None
        g2 == IF AnyIn(PlanText(req), {<<"guitar">>, <<"riff">>, <<"rock">>, <<"metal">>})
                 /\ g1 = None
              THEN Some("heavy_guitars") ELSE g1
    IN  IF AnyIn(PlanText(req), {<<"synth">>, <<"electronic">>, <<"digital">>})
        THEN None ELSE g2

(* the config dict; structure is the value of the list it refers to *)
BuildConfig(req) ==
    [tempo_bpm |-> BuildTempo(req), key |-> BuildKey(req),
     artist_style |-> BuildStyle(req), energy_curve |-> BuildEnergy(req),
     structure |-> BuildStructure(req), drum_profile |-> BuildDrums(req),
     guitar_profile |-> BuildGuitar(req), mood |-> BuildMood(req),
     synth_profile |-> None]

(* artist_style.replace('_', ' ').title() on the styles the rules set *)
TitleStyle(style) ==
    CASE style = "linkin_park" -> "Linkin Park"
      [] style = "eminem" -> "Eminem"
      [] style = "depeche_mode" -> "Depeche Mode"
      [] style = "gary_numan" -> "Gary Numan"
      [] style = "kraftwerk" -> "Kraftwerk"
      [] style = "pet_shop_boys" -> "Pet Shop Boys"
      [] style = "new_order" -> "New Order"
      [] OTHER -> style

(* The summary string: "Tempo: <tempo> BPM in <key>." followed by the      *)
(* sentences of rest, all joined by one space.                             *)
Summary(tempo, key, rest) == [tempo |-> tempo, key |-> key, rest |-> rest]

BuildSummary(req, cfg) ==
    LET text == PlanText(req)
        usage == PlanUsage(req)
        When(cond, sentence) == IF cond THEN <<sentence>> ELSE <<>>
    IN  Summary(cfg.tempo_bpm, cfg.key,
            When(cfg.artist_style # "generic",
                 IF cfg.artist_style = "linkin_park_eminem_hybrid"
                 THEN "Artist influence: Linkin Park + Eminem hybrid."
                 ELSE "Artist influence: " \o TitleStyle(cfg.artist_style) \o ".")
            \o When(usage # "", "Usage: " \o usage \o ".")
            \o (IF HasPhrase(text, <<"dark">>) \/ cfg.mood = "dark"
                THEN <<"Mood: dark/emotional.">>
                ELSE When(HasPhrase(text, <<"uplifting">>) \/ cfg.mood = "uplifting",
                          "Mood: uplifting/positive."))
            \o When(HasPhrase(text, <<"tiktok">>) \/ HasPhrase(text, <<"shorts">>)
                        \/ usage = "tiktok",
                    "Optimized for short, hook-first format.")
            \o When(cfg.guitar_profile # None, "Guitars will be prominent and riff-driven.")
            \o (IF cfg.drum_profile = "eminem_bounce"
                THEN <<"Drums will have a bouncy, hip-hop feel.">>
                ELSE When(cfg.drum_profile = "lp_rock_drums",
                          "Drums will have a heavy rock/metal feel."))
            \o When(usage = "background", "Structured for background/ambient use."))

(* build_producer_plan: the plan as a value (its structure list inlined) *)
BuildProducerPlan(req) ==
    [config |-> BuildConfig(req), summary |-> BuildSummary(req, BuildConfig(req))]

(* ------------- LLMProducerClient._apply_deterministic_refinements ------- *)

(* key.replace("major", "minor") and key.replace("minor", "major") *)
ToMinor(key) ==
    CASE key = "C major" -> "C minor" [] key = "D major" -> "D minor"
      [] key = "F major" -> "F minor" [] key = "G major" -> "G minor"
      [] key = "A major" -> "A minor" [] OTHER -> key
ToMajor(key) ==
    CASE key = "C minor" -> "C major" [] key = "D minor" -> "D major"
      [] key = "F minor" -> "F major" [] key = "G minor" -> "G major"
      [] key = "A minor" -> "A major" [] OTHER -> key

(* list.insert(-1, "build") *)
InsertBeforeLast(list, x) ==
    SubSeq(list, 1, Len(list) - 1) \o <<x>> \o <<list[Len(list)]>>

(* the conditions of the rules of the refiner *)
MassiveRule(req) ==
    AnyIn(PlanText(req), {<<"massive">>, <<"huge">>, <<"epic">>, <<"cinematic">>})
DropRule(req) ==
    AnyIn(PlanText(req), {<<"drop">>, <<"buildup">>, <<"build", "up">>, <<"crescendo">>})
BalladRule(req) ==
    AnyIn(PlanText(req), {<<"ballad">>, <<"slow">>, <<"intimate">>, <<"soft">>})
EnergeticRule(req) ==
    AnyIn(PlanText(req), {<<"energetic">>, <<"pumped">>, <<"hype">>, <<"intense">>})
ViralRule(req) ==
    PlanUsage(req) \in {"tiktok", "shorts"}
    \/ AnyIn(PlanText(req), {<<"tiktok">>, <<"shorts">>, <<"viral">>})
FullSongRule(req) ==
    PlanUsage(req) = "full_song" \/ HasPhrase(PlanText(req), <<"full", "song">>)
HybridRule(req) == Mentions(req, <<"linkin", "park">>) /\ Mentions(req, <<"eminem">>)
HeavyRule(req) ==
    AnyIn(PlanText(req), {<<"heavy">>, <<"aggressive">>, <<"intense">>, <<"raw">>})
UpliftingRule(req) ==
    AnyIn(PlanText(req), {<<"uplifting">>, <<"positive">>, <<"happy">>, <<"joyful">>})
RiffRule(req) ==
    AnyIn(PlanText(req), {<<"guitar">>, <<"guitars">>, <<"riff">>, <<"riffs">>})
EdmRule(req) ==
    AnyIn(PlanText(req), {<<"synth">>, <<"electronic">>, <<"digital">>, <<"edm">>})
GrooveRule(req) ==
    AnyIn(PlanText(req), {<<"drums">>, <<"percussion">>, <<"beat">>, <<"groove">>})

(* the insert done without looking for an earlier "build" *)
RefineInPlace_NoGuard(req, structure) ==
    IF DropRule(req) /\ structure # <<>>
    THEN InsertBeforeLast(structure, "build")
    ELSE structure

(* the caller's structure list after the call: "build" inserted in place *)
RefineInPlace(req, structure) ==
    IF DropRule(req) /\ structure # <<>> /\ "build" \notin Range(structure)
    THEN InsertBeforeLast(structure, "build")
    ELSE structure

(* the slow rule taking 15 BPM off instead of capping *)
RefineTempo_SlowDown(req, tempo) ==
    LET t1 == IF BalladRule(req) THEN tempo - 15 ELSE tempo
    IN  IF EnergeticRule(req) THEN Max(t1, 125) ELSE t1

RefineTempo(req, tempo) ==
    LET t1 == IF BalladRule(req) THEN Min(tempo, 85) ELSE tempo
    IN  IF EnergeticRule(req) THEN Max(t1, 125) ELSE t1

RefineEnergy(req, energy) ==
    LET e1 == IF MassiveRule(req) THEN "dynamic_build" ELSE energy
        e2 == IF ViralRule(req) THEN "hook_first" ELSE e1
        e3 == IF FullSongRule(req) THEN "dynamic" ELSE e2
    IN  IF BackgroundRule(req) THEN "steady_ambient" ELSE e3

(* the returned config refers to a new list when one of these rules fires *)
Rebinds(req) == ViralRule(req) \/ FullSongRule(req) \/ BackgroundRule(req)

RefineStructure(req, structure) ==
    LET s1 == IF ViralRule(req) THEN <<"intro", "hook", "drop", "chorus">>
              ELSE RefineInPlace(req, structure)
        s2 == IF FullSongRule(req) THEN FULL_STRUCTURE ELSE s1
    IN  IF BackgroundRule(req) THEN <<"loop", "variation", "loop">> ELSE s2

RefineKey(req, key) ==
    LET k1 == IF HeavyRule(req) /\ ToMinor(key) # key THEN ToMinor(key) ELSE key
    IN  IF UpliftingRule(req) /\ ToMajor(k1) # k1 THEN ToMajor(k1) ELSE k1

RefineGuitar(req, guitar) ==
    LET g1 == IF HybridRule(req) THEN Some("nu_metal_heavy") ELSE guitar
        g2 == IF RiffRule(req) THEN Some("prominent_heavy") ELSE g1
    IN  IF EdmRule(req) THEN None ELSE g2

(* the sentences one pass appends to the summary *)
RefineSentences(req, structure) ==
    LET When(cond, sentence) == IF cond THEN <<sentence>> ELSE <<>>
    IN  When(MassiveRule(req), "Enhanced with dynamic build for massive impact.")
        \o When(DropRule(req) /\ structure # <<>>, "Added buildup section for tension.")
        \o When(BalladRule(req), "Slowed tempo for intimate feel.")
        \o When(EnergeticRule(req), "Increased tempo for high energy.")
        \o When(ViralRule(req), "Optimized structure for viral short-form content.")
        \o When(FullSongRule(req), "Full song structure with bridge.")
        \o When(HybridRule(req), "Created nu-metal/rap-rock hybrid sound.")
        \o When(HeavyRule(req), "Darkened tonality for heavier feel.")
        \o When(UpliftingRule(req), "Brightened tonality for uplifting mood.")
        \o When(RiffRule(req), "Guitars featured prominently.")
        \o When(EdmRule(req), "Electronic synths featured.")
        \o When(GrooveRule(req), "Emphasized drum presence.")
        \o When(BackgroundRule(req), "Structured for background/ambient use.")

(* One call of the refiner on the plan (cfg, summary), cfg.structure being *)
(* the value of the list base_plan.config["structure"] refers to.  The     *)
(* config is copied shallowly, so the insert acts on the caller's list:    *)
(* base_structure is that list after the call, and rebound tells whether   *)
(* the returned config refers to a new list instead.                       *)
Refine(req, cfg, summary) ==
    [config |->
        [tempo_bpm |-> RefineTempo(req, cfg.tempo_bpm),
         key |-> RefineKey(req, cfg.key),
         artist_style |-> IF HybridRule(req) THEN "linkin_park_eminem_hybrid"
                          ELSE cfg.artist_style,
         energy_curve |-> RefineEnergy(req, cfg.energy_curve),
         structure |-> RefineStructure(req, cfg.structure),
         drum_profile |-> IF HybridRule(req) THEN "hybrid_rock_hiphop" ELSE cfg.drum_profile,
         guitar_profile |-> RefineGuitar(req, cfg.guitar_profile),
         mood |-> cfg.mood,
         synth_profile |-> IF EdmRule(req) THEN Some("prominent_digital")
                           ELSE cfg.synth_profile],
     summary |-> Summary(summary.tempo, summary.key,
                         summary.rest \o RefineSentences(req, cfg.structure)),
     base_structure |-> RefineInPlace(req, cfg.structure),
     rebound |-> Rebinds(req)]

(* ---------------------- app/music/artist_profiles.py ------------------ *)
(* get_scale_degrees: the semitone offsets of a scale, natural_minor for a *)
(* name that is not a key of scales                                        *)
get_scale_degrees(scale_name) ==
    CASE scale_name = "major" -> <<0, 2, 4, 5, 7, 9, 11>>
      [] scale_name = "dorian" -> <<0, 2, 3, 5, 7, 9, 10>>
      [] OTHER -> <<0, 2, 3, 5, 7, 8, 10>>

(* roman_map.get(roman, 0) *)
RomanDegree(roman) ==
    CASE roman \in {"i", "I"} -> 0 [] roman \in {"ii", "II"} -> 1
      [] roman \in {"iii", "III"} -> 2 [] roman \in {"iv", "IV"} -> 3
      [] roman \in {"v", "V"} -> 4 [] roman \in {"vi", "VI"} -> 5
      [] roman \in {"vii", "VII"} -> 6 [] OTHER -> 0

(* the octave wrap applied to the third only *)
roman_to_semitones_ThirdOnly(roman, scale_name) ==
    LET scale == get_scale_degrees(scale_name)
        degree == RomanDegree(roman)
        root == scale[(degree % Len(scale)) + 1]
        third0 == scale[((degree + 2) % Len(scale)) + 1]
        fifth0 == scale[((degree + 4) % Len(scale)) + 1]
        third == IF third0 < root THEN third0 + 12 ELSE third0
    IN  <<root, third, fifth0>>

roman_to_semitones(roman, scale_name) ==
    LET scale == get_scale_degrees(scale_name)
        degree == RomanDegree(roman)
        root == scale[(degree % Len(scale)) + 1]
        third0 == scale[((degree + 2) % Len(scale)) + 1]
        fifth0 == scale[((degree + 4) % Len(scale)) + 1]
        third == IF third0 < root THEN third0 + 12 ELSE third0
        fifth1 == IF fifth0 < root THEN fifth0 + 12 ELSE fifth0
        fifth == IF fifth1 < third THEN fifth1 + 12 ELSE fifth1
    IN  <<root, third, fifth>>

(* --------------------- generate_kick (the sequencer) ------------------- *)
(* len(kick) of the one-shot of a drum machine: int(0.4 * SAMPLE_RATE),    *)
(* int(0.18 * SAMPLE_RATE), int(0.22 * SAMPLE_RATE)                        *)
KickLength(style) ==
    IF style = "808" THEN (4 * SAMPLE_RATE) \div 10
    ELSE IF style = "909" THEN (18 * SAMPLE_RATE) \div 100
    ELSE (22 * SAMPLE_RATE) \div 100

(* round(60 * SAMPLE_RATE / tempo_bpm), halves going to the even integer *)
samples_per_beat_Rounded(tempo_bpm) ==
    LET q == (60 * SAMPLE_RATE) \div tempo_bpm
        r == (60 * SAMPLE_RATE) % tempo_bpm
    IN  IF 2 * r > tempo_bpm \/ (2 * r = tempo_bpm /\ q % 2 = 1) THEN q + 1 ELSE q

(* int(60 * SAMPLE_RATE / tempo_bpm) *)
samples_per_beat(tempo_bpm) ==
    (60 * SAMPLE_RATE) \div tempo_bpm

(* the call generate_kick(pattern, tempo_bpm, ., style) on a track of      *)
(* num_samples samples, as it stands before the loop; track holds the      *)
(* slices [start, end) a one-shot has been added to, in the order made     *)
KickCall(pattern, tempo_bpm, num_samples, style) ==
    [pattern |-> pattern, tempo_bpm |-> tempo_bpm, num_samples |-> num_samples,
     style |-> style, beat_index |-> 0, current_sample |-> 0,
     track |-> [len |-> num_samples, slices |-> <<>>], returned |-> FALSE]

(* ------------------------------- inputs -------------------------------- *)
(* calls of generate_kick: tempos whose beat is a whole number of samples  *)
(* (60, 200), ends on a half (96, 160) and on another fraction (130);      *)
(* track lengths from the empty track to a few beats                       *)
KickCalls ==
    {KickCall(pattern, tempo_bpm, num_samples, style) :
        pattern \in {<<1, 0, 0, 0, 1, 0, 1, 0>>, <<0, 1>>, <<1>>, <<0, 0, 0>>},
        tempo_bpm \in {60, 96, 130, 160, 200},
        num_samples \in {0, 1, 13230, 44100, 50000, 88200},
        style \in {"808", "909", "acoustic"}}

(* calls of roman_to_semitones: every numeral of roman_map, numerals it    *)
(* does not hold, the three scales and names that are no scale             *)
Romans ==
    {"i", "I", "ii", "II", "iii", "III", "iv", "IV", "v", "V", "vi", "VI", "vii", "VII",
     "viii", "Vi", "", "bII"}
ScaleNames == {"natural_minor", "major", "dorian", "harmonic_minor", "Major", ""}
ChordCalls ==
    {[roman |-> r, scale_name |-> s, triad |-> None] : r \in Romans, s \in ScaleNames}

DM == <<"Depeche", "Mode">>
GN == <<"Gary", "Numan">>
KW == <<"Kraftwerk">>
NO == <<"New", "Order">>
PSB == <<"Pet", "Shop", "Boys">>
THL == <<"The", "Human", "League">>
UB == <<"Unknown", "Band">>

Tempos == {60, 125, 200}

(* requests served by a single worker *)
SoloRequests ==
    {Req(<<DM>>, Some("dark"), Some(120), None, None, None),
     Req(<<UB>>, None, None, None, None, None),
     Req(<<UB, KW>>, None, None, None, None, None),
     Req(<<DM, GN>>, None, None, None, Some(<<>>), None),
     Req(<<DM, GN, NO>>, Some("dark"), None, None, None, None),
     Req(<<GN>>, Some("dystopian"), None, None, None,
         Some(<<"Something", "like", "a", "dystopian", "future", "cityscape">>)),
     Req(<<THL, KW>>, Some("powerful"), None, Some(<<"piano", "808">>),
         Some(<<<<"Intro">>, <<"Solo">>, <<"Verse">>>>), None),
     Req(<<KW>>, None, None, None,
         Some(<<<<"Verse", "Outro">>, <<"Drop">>, <<"Bridge">>, <<"Final", "Chorus">>,
                <<"Outro">>>>), None),
     Req(<<DM>>, None, None, None, None, Some(<<"la", "la", "la", "la", "land">>))}
    \cup {Req(<<PSB>>, None, Some(t), None,
               Some(<<<<"Intro">>, <<"Verse">>, <<"Chorus">>, <<"Outro">>>>), None) : t \in Tempos}

(* requests served by two workers at once *)
ConcRequests ==
    {Req(<<KW>>, Some("mechanical"), Some(125), None, None, None),
     Req(<<KW>>, Some("mechanical"), Some(90), None, None, None)}

SoloPlans ==
    {Plan(100, "generic", <<"intro", "verse", "chorus", "verse", "chorus", "outro">>),
     Plan(110, "depeche_mode", <<"intro", "hook", "drop", "chorus">>),
     Plan(85, "gary_numan", <<"loop">>),
     Plan(60, "kraftwerk", <<"intro">>),
     Plan(200, "pet_shop_boys", <<"verse", "bridge", "chorus">>),
     Plan(120, "new_order", <<"pre_chorus", "chorus">>),
     Plan(128, "eurythmics", <<"outro", "drop">>),
     Plan(90, "yazoo", <<"Bridge", "verse">>)}

(* requests given to build_producer_plan and to the refiner *)
PlanTexts ==
    {None,
     Some(<<"slow", "emotional", "tiktok", "hook">>),
     Some(<<"Slow", "fast", "TikTok">>),
     Some(<<"soft", "viral">>),
     Some(<<"ballad">>),
     Some(<<"intense", "shorts">>),
     Some(<<"massive", "drop">>),
     Some(<<"uplifting", "guitars", "buildup">>),
     Some(<<"heavy", "synth", "linkin", "park", "eminem">>),
     Some(<<"happy", "kraftwerk", "crescendo">>),
     Some(<<"full", "song", "build", "up">>),
     Some(<<"dark", "riff", "groove">>),
     Some(<<"intimate", "hype">>),
     Some(<<"bright", "rock", "depeche", "mode">>)}

PlanRequests ==
    {PlanReq(text, who[1], usage, tempo, who[2]) :
        text \in PlanTexts,
        who \in {<<<<>>, None>>, <<<<<<"Eminem">>>>, None>>,
                 <<<<<<"Linkin", "Park">>, GN>>, None>>, <<<<>>, Some("new_order")>>,
                 <<<<<<"Eminem">>>>, Some("linkin_park")>>},
        usage \in {None, Some("tiktok"), Some("shorts"), Some("Background"),
                   Some("full_song"), Some("longform")},
        tempo \in {None, Some(60), Some(100), Some(200)}}

Workers == {"w1", "w2"}

(* "solo": one worker process; "conc": two worker processes; "plan": the   *)
(* producer-plan builder and refiner, which render nothing; "chord": one   *)
(* call of roman_to_semitones; "drums": one call of generate_kick          *)
Procs(m) == IF m = "solo" THEN {"w1"} ELSE IF m = "conc" THEN Workers ELSE {}
RequestPool(m) ==
    IF m = "solo" THEN SoloRequests ELSE IF m = "conc" THEN ConcRequests ELSE {}
PlanPool(m) == IF m = "solo" THEN SoloPlans ELSE {}
JobBudget(m) == IF m = "solo" THEN MaxJobs - 1 ELSE MaxJobs

(* ------------------------------- state --------------------------------- *)
VARIABLES
    mode,       \* deployment: "solo" (one worker process) or "conc" (two)
    pc,         \* pc[w]: the step worker w takes next
    job,        \* job[w]: the request or plan in hand, <<>> when none
    par,        \* par[w]: tempo_bpm, num_samples and the resolved parameters
    buf,        \* buf[w]: the tracks and the mix of the render in progress
    resp,       \* resp[w]: the response under construction / last returned
    rng,        \* rng[w]: state of the process-wide numpy generator
    salt,       \* salt[w]: the string-hash salt of the process
    fs,         \* static/audio/music: path -> [frames, writers, src]
    seen,       \* what the static-file reader observed last
    served,     \* number of jobs accepted so far
    preq,       \* the request the producer plan is built from, <<>> when none
    plans,      \* the ProducerPlan objects made so far, oldest first
    lists,      \* the structure lists the plan configs refer to
    chord,      \* roman_to_semitones: its arguments and the triad it returned
    walk        \* generate_kick: its arguments and the state of its loop

vars ==
    <<mode, pc, job, par, buf, resp, rng, salt, fs, seen, served, preq, plans, lists,
      chord, walk>>

NoTracks ==
    [kick |-> NoBuf, snare |-> NoBuf, hihat |-> NoBuf, bass |-> NoBuf,
     synth |-> NoBuf, arp |-> NoBuf, lead |-> NoBuf, mix |-> NoBuf, right |-> NoBuf]

Resting == {"idle", "responded", "returned"}

Init ==
    /\ mode \in {"solo", "conc", "plan", "chord", "drums"}
    /\ pc = [w \in Workers |-> "idle"]
    /\ job = [w \in Workers |-> <<>>]
    /\ par = [w \in Workers |-> <<>>]
    /\ buf = [w \in Workers |-> NoTracks]
    /\ resp = [w \in Workers |-> <<>>]
    /\ rng \in [Workers -> Seeds]
    /\ salt \in [Workers -> Salts]
    /\ \A w \in Workers \ Procs(mode) : rng[w] = 0 /\ salt[w] = 0
    /\ fs = <<>>
    /\ seen = "nothing"
    /\ served = 0
    /\ preq = <<>>
    /\ plans = <<>>
    /\ lists = <<>>
    /\ chord \in IF mode = "chord" THEN ChordCalls ELSE {<<>>}
    /\ walk \in IF mode = "drums" THEN KickCalls ELSE {<<>>}

(* ------------------- generate_song / generate_backing_track ------------ *)
(* generate_song up to the call of _generate_audio *)
Receive(w, req) ==
    /\ w \in Procs(mode)
    /\ req \in RequestPool(mode)
    /\ pc[w] \in Resting
    /\ served < JobBudget(mode)
    /\ served' = served + 1
    /\ job' = [job EXCEPT ![w] = req]
    /\ resp' = [resp EXCEPT ![w] = Blueprint(salt[w], req)]
    /\ par' = [par EXCEPT ![w] = <<>>]
    /\ buf' = [buf EXCEPT ![w] = NoTracks]
    /\ pc' = [pc EXCEPT ![w] = "render"]
    /\ UNCHANGED <<chord, walk, preq, plans, lists, mode, rng, salt, fs, seen>>

(* parameters, timing, the six tracks and the first mix *)
GenerateTracks(w) ==
    /\ pc[w] = "render"
    /\ LET params == ResolveArtistParams(job[w])
           tempo_bpm == RenderTempo(job[w])
           pat == params.patterns
           nk == HitCount(pat.kick)
           ns == HitCount(pat.snare)
           nh == HitCount(pat.hihat)
           kick == GenerateKick(pat.kick, params.drum_machine, rng[w], 0)
           snare == GenerateSnare(pat.snare, params.drum_machine, rng[w], nk)
           hihat == GenerateHihat(pat.hihat, rng[w], nk + ns)
           bass == GenerateBass(params.bass_style, params.bass_intensity)
           synth == GenerateSynth(params.synth_type)
           with_arp == "arpeggiator" \in params.instruments
           arp == IF with_arp THEN GenerateArp ELSE NoBuf
       IN  /\ par' = [par EXCEPT ![w] =
                        [tempo_bpm |-> tempo_bpm,
                         num_samples |-> BackingNumSamples(tempo_bpm),
                         params |-> params]]
           /\ buf' = [buf EXCEPT ![w] =
                        [NoTracks EXCEPT !.kick = kick, !.snare = snare, !.hihat = hihat,
                                         !.bass = bass, !.synth = synth, !.arp = arp,
                                         !.mix = SumTracks(kick, snare, hihat, bass, synth, arp, with_arp)]]
           /\ rng' = [rng EXCEPT ![w] = RngAt(rng[w], nk + ns + nh)]
    /\ pc' = [pc EXCEPT ![w] = "sidechain"]
    /\ UNCHANGED <<chord, walk, preq, plans, lists, mode, job, resp, salt, fs, seen, served>>

Sidechain(w) ==
    /\ pc[w] = "sidechain"
    /\ buf' = [buf EXCEPT ![w].mix =
                  IF par[w].params.use_sidechain
                  THEN ApplySidechain(buf[w].mix, buf[w].kick) ELSE @]
    /\ pc' = [pc EXCEPT ![w] = "gated"]
    /\ UNCHANGED <<chord, walk, preq, plans, lists, mode, job, par, resp, rng, salt, fs, seen, served>>

(* the mix that follows the gated reverb: rebuilt from the tracks *)
GatedRemix(b, with_arp) ==
    LET snare == ApplyGatedReverb(b.snare)
    IN  [b EXCEPT !.snare = snare,
                  !.mix = SumTracks(b.kick, snare, b.hihat, b.bass, b.synth, b.arp, with_arp)]

GatedReverb(w) ==
    /\ pc[w] = "gated"
    /\ buf' = [buf EXCEPT ![w] =
                  IF par[w].params.use_gated_reverb
                  THEN GatedRemix(@, "arpeggiator" \in par[w].params.instruments)
                  ELSE @]
    /\ pc' = [pc EXCEPT ![w] = "normalise"]
    /\ UNCHANGED <<chord, walk, preq, plans, lists, mode, job, par, resp, rng, salt, fs, seen, served>>

NormaliseMix(w) ==
    /\ pc[w] = "normalise"
    /\ buf' = [buf EXCEPT ![w].mix = Normalise(@)]
    /\ pc' = [pc EXCEPT ![w] = "fade"]
    /\ UNCHANGED <<chord, walk, preq, plans, lists, mode, job, par, resp, rng, salt, fs, seen, served>>

FadeMix(w) ==
    /\ pc[w] = "fade"
    /\ buf' = [buf EXCEPT ![w].mix = ApplyFade(@)]
    /\ pc' = [pc EXCEPT ![w] = "open"]
    /\ UNCHANGED <<chord, walk, preq, plans, lists, mode, job, par, resp, rng, salt, fs, seen, served>>

(* ------------------------- sf.write(path, mix) ------------------------- *)
FilePath(req) == AudioUrl(RenderTrackId(req))

(* src: the request whose render produced the frames (bookkeeping) *)
File(frames, writers, src) == [frames |-> frames, writers |-> writers, src |-> src]

Put(files, path, file) ==
    [p \in (DOMAIN files) \cup {path} |-> IF p = path THEN file ELSE files[p]]

(* the file is created or truncated *)
OpenFile(w) ==
    /\ pc[w] = "open"
    /\ LET path == FilePath(job[w])
           writers == IF path \in DOMAIN fs THEN fs[path].writers ELSE {}
       IN  fs' = Put(fs, path, File(NoBuf, writers \cup {w}, job[w]))
    /\ pc' = [pc EXCEPT ![w] = "write"]
    /\ UNCHANGED <<chord, walk, preq, plans, lists, mode, job, par, buf, resp, rng, salt, seen, served>>

(* the frames go into the open file *)
WriteFrames(w) ==
    /\ pc[w] = "write"
    /\ LET path == FilePath(job[w])
       IN  fs' = Put(fs, path, File(buf[w].mix, fs[path].writers, job[w]))
    /\ pc' = [pc EXCEPT ![w] = "close"]
    /\ UNCHANGED <<chord, walk, preq, plans, lists, mode, job, par, buf, resp, rng, salt, seen, served>>

(* the file is closed, the URL goes into the response *)
CloseFile(w) ==
    /\ pc[w] = "close"
    /\ LET path == FilePath(job[w])
       IN  /\ fs' = Put(fs, path, File(fs[path].frames, fs[path].writers \ {w}, fs[path].src))
           /\ resp' = [resp EXCEPT ![w].audio_url = path]
    /\ pc' = [pc EXCEPT ![w] = "responded"]
    /\ UNCHANGED <<chord, walk, preq, plans, lists, mode, job, par, buf, rng, salt, seen, served>>

(* the static-file collaborator serves a path *)
Complete(file) == file.writers = {} /\ Len(file.frames.n) = BufLen

ReadFile(path) ==
    /\ path \in {FilePath(r) : r \in RequestPool(mode)}
    /\ seen' = IF path \notin DOMAIN fs THEN "absent"
               ELSE IF Complete(fs[path]) THEN "complete" ELSE "partial"
    /\ seen' # seen
    /\ UNCHANGED <<chord, walk, preq, plans, lists, mode, pc, job, par, buf, resp, rng, salt, fs, served>>

(* --------------------------- generate_full_track ----------------------- *)
(* plan parameters, styles, total length, patterns *)
StartTrack(w, plan) ==
    /\ w \in Procs(mode)
    /\ plan \in PlanPool(mode)
    /\ pc[w] \in Resting
    /\ served < JobBudget(mode)
    /\ served' = served + 1
    /\ job' = [job EXCEPT ![w] = plan]
    /\ resp' = [resp EXCEPT ![w] = <<>>]
    /\ par' = [par EXCEPT ![w] =
                 [tempo_bpm |-> plan.tempo_bpm,
                  num_samples |-> FullNumSamples(plan),
                  drum_style |-> DrumStyle(plan.artist_style),
                  bass_style |-> BassStyle(plan.artist_style),
                  synth_style |-> SynthStyle(plan.artist_style),
                  patterns |-> FullPatterns(plan.artist_style),
                  windows |-> <<>>]]
    /\ buf' = [buf EXCEPT ![w] = NoTracks]
    /\ pc' = [pc EXCEPT ![w] = "drums"]
    /\ UNCHANGED <<chord, walk, preq, plans, lists, mode, rng, salt, fs, seen>>

TrackDrums(w) ==
    /\ pc[w] = "drums"
    /\ LET pat == par[w].patterns
           nk == HitCount(pat.kick)
           ns == HitCount(pat.snare)
           nh == HitCount(pat.hihat)
       IN  /\ buf' = [buf EXCEPT
                        ![w].kick = GenerateKick(pat.kick, par[w].drum_style, rng[w], 0),
                        ![w].snare = GenerateSnare(pat.snare, par[w].drum_style, rng[w], nk),
                        ![w].hihat = GenerateHihat(pat.hihat, rng[w], nk + ns)]
           /\ rng' = [rng EXCEPT ![w] = RngAt(rng[w], nk + ns + nh)]
    /\ pc' = [pc EXCEPT ![w] = "bass"]
    /\ UNCHANGED <<chord, walk, preq, plans, lists, mode, job, par, resp, salt, fs, seen, served>>

TrackBass(w) ==
    /\ pc[w] = "bass"
    /\ buf' = [buf EXCEPT ![w].bass = GenerateBassline(par[w].bass_style)]
    /\ pc' = [pc EXCEPT ![w] = "pads"]
    /\ UNCHANGED <<chord, walk, preq, plans, lists, mode, job, par, resp, rng, salt, fs, seen, served>>

TrackPads(w) ==
    /\ pc[w] = "pads"
    /\ buf' = [buf EXCEPT ![w].synth = GenerateChords(par[w].synth_style)]
    /\ pc' = [pc EXCEPT ![w] = "lead"]
    /\ UNCHANGED <<chord, walk, preq, plans, lists, mode, job, par, resp, rng, salt, fs, seen, served>>

TrackLead(w) ==
    /\ pc[w] = "lead"
    /\ buf' = [buf EXCEPT ![w].lead = GenerateLeadMelody]
    /\ pc' = [pc EXCEPT ![w] = "mix"]
    /\ UNCHANGED <<chord, walk, preq, plans, lists, mode, job, par, resp, rng, salt, fs, seen, served>>

TrackMix(w) ==
    /\ pc[w] = "mix"
    /\ buf' = [buf EXCEPT ![w].mix = SectionMix(job[w].structure, buf[w])]
    /\ par' = [par EXCEPT ![w].windows =
                 SampleWindows(job[w].structure, SamplesPerBar(par[w].tempo_bpm), 0,
                               par[w].num_samples)]
    /\ pc' = [pc EXCEPT ![w] = "duck"]
    /\ UNCHANGED <<chord, walk, preq, plans, lists, mode, job, resp, rng, salt, fs, seen, served>>

TrackSidechain(w) ==
    /\ pc[w] = "duck"
    /\ buf' = [buf EXCEPT ![w].mix =
                  IF job[w].artist_style \in SIDECHAIN_STYLES
                  THEN ApplySidechain(@, buf[w].kick) ELSE @]
    /\ pc' = [pc EXCEPT ![w] = "level"]
    /\ UNCHANGED <<chord, walk, preq, plans, lists, mode, job, par, resp, rng, salt, fs, seen, served>>

(* the fade left out after the normalisation *)
TrackNormalise_SkipFade(w) ==
    /\ pc[w] = "level"
    /\ buf' = [buf EXCEPT ![w].mix = Normalise(@)]
    /\ pc' = [pc EXCEPT ![w] = "stereo"]
    /\ UNCHANGED <<chord, walk, preq, plans, lists, mode, job, par, resp, rng, salt, fs, seen, served>>

TrackNormalise(w) ==
    /\ pc[w] = "level"
    /\ buf' = [buf EXCEPT ![w].mix = Normalise(@)]
    /\ pc' = [pc EXCEPT ![w] = "fades"]
    /\ UNCHANGED <<chord, walk, preq, plans, lists, mode, job, par, resp, rng, salt, fs, seen, served>>

TrackFade(w) ==
    /\ pc[w] = "fades"
    /\ buf' = [buf EXCEPT ![w].mix = ApplyFadeGuarded(@)]
    /\ pc' = [pc EXCEPT ![w] = "stereo"]
    /\ UNCHANGED <<chord, walk, preq, plans, lists, mode, job, par, resp, rng, salt, fs, seen, served>>

(* np.column_stack([mix, mix]) with the widened right channel; returned *)
TrackStereo(w) ==
    /\ pc[w] = "stereo"
    /\ buf' = [buf EXCEPT ![w].right = WidenRight(buf[w].mix, buf[w].synth)]
    /\ pc' = [pc EXCEPT ![w] = "returned"]
    /\ UNCHANGED <<chord, walk, preq, plans, lists, mode, job, par, resp, rng, salt, fs, seen, served>>

(* ------------------ build_producer_plan and refine_plan ---------------- *)
(* a plan object with the list its config refers to written out *)
Deref(plan) == [plan EXCEPT !.config.structure = lists[@]]

(* build_producer_plan(req): a new plan object and a new structure list *)
BuildPlan(req) ==
    /\ mode = "plan"
    /\ plans = <<>>
    /\ preq' = req
    /\ lists' = <<BuildProducerPlan(req).config.structure>>
    /\ plans' = <<[BuildProducerPlan(req) EXCEPT !.config.structure = 1]>>
    /\ UNCHANGED <<chord, walk, mode, pc, job, par, buf, resp, rng, salt, fs, seen, served>>

(* refine_plan(preq, plans[k]): the insert writes through to the list of   *)
(* plans[k]; the returned plan refers to that list or to a new one         *)
RefinePlan(k) ==
    /\ mode = "plan"
    /\ k \in 1..Len(plans)
    /\ Len(plans) <= MaxPasses
    /\ LET base == plans[k]
           r == Refine(preq, Deref(base).config, base.summary)
           written == [lists EXCEPT ![base.config.structure] = r.base_structure]
           ref == IF r.rebound THEN Len(lists) + 1 ELSE base.config.structure
       IN  /\ lists' = IF r.rebound THEN Append(written, r.config.structure) ELSE written
           /\ plans' = Append(plans, [config |-> [r.config EXCEPT !.structure = ref],
                                      summary |-> r.summary])
    /\ UNCHANGED <<chord, walk, mode, pc, job, par, buf, resp, rng, salt, fs, seen, served, preq>>

(* roman_to_semitones(chord.roman, chord.scale_name) returns *)
RomanToSemitones ==
    /\ mode = "chord"
    /\ chord.triad = None
    /\ chord' = [chord EXCEPT !.triad = Some(roman_to_semitones(chord.roman, chord.scale_name))]
    /\ UNCHANGED <<walk, mode, pc, job, par, buf, resp, rng, salt, fs, seen, served,
                   preq, plans, lists>>

(* one turn of the loop of generate_kick *)
KickStep ==
    /\ mode = "drums"
    /\ ~walk.returned
    /\ walk.current_sample < walk.num_samples
    /\ LET end_sample == Min(walk.current_sample + KickLength(walk.style), walk.num_samples)
           hit == walk.pattern[(walk.beat_index % Len(walk.pattern)) + 1] = 1
       IN  walk' = [walk EXCEPT
                      !.track.slices = IF hit THEN Append(@, <<walk.current_sample, end_sample>>)
                                       ELSE @,
                      !.current_sample = @ + samples_per_beat(walk.tempo_bpm),
                      !.beat_index = @ + 1]
    /\ UNCHANGED <<chord, mode, pc, job, par, buf, resp, rng, salt, fs, seen, served,
                   preq, plans, lists>>

(* the loop test fails and generate_kick returns the track *)
KickReturn ==
    /\ mode = "drums"
    /\ ~walk.returned
    /\ walk.current_sample >= walk.num_samples
    /\ walk' = [walk EXCEPT !.returned = TRUE]
    /\ UNCHANGED <<chord, mode, pc, job, par, buf, resp, rng, salt, fs, seen, served,
                   preq, plans, lists>>

Next ==
    \/ RomanToSemitones
    \/ KickStep
    \/ KickReturn
    \/ \E req \in PlanRequests : BuildPlan(req)
    \/ \E k \in 1..(MaxPasses + 1) : RefinePlan(k)
    \/ \E w \in Workers, req \in SoloRequests \cup ConcRequests : Receive(w, req)
    \/ \E w \in Workers : GenerateTracks(w)
    \/ \E w \in Workers : Sidechain(w)
    \/ \E w \in Workers : GatedReverb(w)
    \/ \E w \in Workers : NormaliseMix(w)
    \/ \E w \in Workers : FadeMix(w)
    \/ \E w \in Workers : OpenFile(w)
    \/ \E w \in Workers : WriteFrames(w)
    \/ \E w \in Workers : CloseFile(w)
    \/ \E path \in {FilePath(r) : r \in SoloRequests \cup ConcRequests} : ReadFile(path)
    \/ \E w \in Workers, plan \in SoloPlans : StartTrack(w, plan)
    \/ \E w \in Workers : TrackDrums(w)
    \/ \E w \in Workers : TrackBass(w)
    \/ \E w \in Workers : TrackPads(w)
    \/ \E w \in Workers : TrackLead(w)
    \/ \E w \in Workers : TrackMix(w)
    \/ \E w \in Workers : TrackSidechain(w)
    \/ \E w \in Workers : TrackNormalise(w)
    \/ \E w \in Workers : TrackFade(w)
    \/ \E w \in Workers : TrackStereo(w)

Spec == Init /\ [][Next]_vars

(* a loop that is running takes its next turn, and returns when its test   *)
(* fails                                                                   *)
LiveSpec == Spec /\ WF_vars(KickStep) /\ WF_vars(KickReturn)

(* ============================== properties ============================= *)
SongStages ==
    {"render", "sidechain", "gated", "normalise", "fade", "open", "write", "close", "responded"}
TrackStages ==
    {"drums", "bass", "pads", "lead", "mix", "duck", "level", "fades", "stereo", "returned"}

InSong(w) == pc[w] \in SongStages
SongRendered(w) == pc[w] \in SongStages \ {"render"}
InTrack(w) == pc[w] \in TrackStages

(* C1 (as claimed): two music requests with identical field values get the *)
(* same track_id, the same title and the same hook, whether one worker     *)
(* process serves both or two different ones do.                           *)
C1_SameBlueprint ==
    \A v, w \in Workers :
        (InSong(v) /\ InSong(w) /\ job[v] = job[w]) =>
            /\ resp[v].track_id = resp[w].track_id
            /\ resp[v].title = resp[w].title
            /\ resp[v].hook = resp[w].hook

(* C2 (as claimed): rendering is deterministic: two renders of the same    *)
(* request hold sample-for-sample the same audio, whether they ran in two  *)
(* processes or one after the other in the same process.                   *)
C2_SameAudio ==
    /\ \A v, w \in Workers :
          (pc[v] = "responded" /\ pc[w] = "responded" /\ job[v] = job[w]) =>
              SameAudio(buf[v].mix, buf[w].mix)
    /\ \A w \in Workers :
          (pc[w] = "open" /\ FilePath(job[w]) \in DOMAIN fs) =>
              LET file == fs[FilePath(job[w])]
              IN  (Complete(file) /\ file.src = job[w]) =>
                      SameAudio(file.frames, buf[w].mix)

(* num is within one sample of 44100 * min(60, total_bars * 4 * 60 / tempo) *)
WithinOneSample(num, total_bars, tempo) ==
    IF total_bars * BEATS_PER_BAR * 60 >= MAX_DURATION * tempo
    THEN Abs(num - MAX_DURATION * SAMPLE_RATE) <= 1
    ELSE /\ (num - 1) * tempo <= SAMPLE_RATE * BEATS_PER_BAR * 60 * total_bars
         /\ SAMPLE_RATE * BEATS_PER_BAR * 60 * total_bars <= (num + 1) * tempo

ResponseBars(w) ==
    SeqSum([i \in 1..Len(resp[w].sections) |-> resp[w].sections[i].bars])

(* C3 (as claimed): for every request or plan the number of rendered       *)
(* samples is within one sample of 44100 * min(60, total_bars * 240 /      *)
(* tempo_bpm), total_bars being the sum of the section bar counts.         *)
C3_LengthFromSections ==
    \A w \in Workers :
        /\ SongRendered(w) =>
              WithinOneSample(par[w].num_samples, ResponseBars(w), par[w].tempo_bpm)
        /\ InTrack(w) =>
              WithinOneSample(par[w].num_samples, TotalBars(job[w].structure), par[w].tempo_bpm)

(* C3 (amended): a plan rendered by generate_full_track has the claimed    *)
(* number of samples, total_bars being the sum of SECTION_DURATIONS over   *)
(* the structure (8 for a name outside the table); a request rendered by   *)
(* generate_backing_track always has 8 bars, whatever its sections:        *)
(* 44100 * 8 * 240 / tempo_bpm samples to within one.  Neither exceeds     *)
(* 60 seconds.                                                             *)
C3_RenderedLength ==
    \A w \in Workers :
        /\ SongRendered(w) =>
              /\ par[w].tempo_bpm = OrInt(job[w].tempo_bpm, resp[w].tempo_bpm)
              /\ WithinOneSample(par[w].num_samples, 8, par[w].tempo_bpm)
              /\ par[w].num_samples <= 60 * 44100
        /\ InTrack(w) =>
              /\ WithinOneSample(par[w].num_samples, TotalBars(job[w].structure), par[w].tempo_bpm)
              /\ par[w].num_samples <= 60 * 44100

(* C3 witness: a plan longer than 60 seconds has been rendered and cut     *)
C3_Witness ==
    \E w \in Workers :
        /\ pc[w] = "returned"
        /\ TotalBars(job[w].structure) * 240 > 60 * job[w].tempo_bpm
        /\ par[w].num_samples = 2646000

PostNormalise == {"fade", "open", "write", "close", "responded", "fades", "stereo", "returned"}

(* C4 (as claimed): once the mix is normalised its peak is at most 0.85    *)
(* and stays so in every later stage, in both channels of the buffer that  *)
(* is returned and in the file that is written.                            *)
C4_PeakEverywhere ==
    /\ \A w \in Workers :
          /\ pc[w] \in PostNormalise => PeakOK(buf[w].mix)
          /\ pc[w] = "returned" => PeakOK(buf[w].right)
    /\ \A path \in DOMAIN fs : PeakOK(fs[path].frames)

(* C4 (amended): once the mix is normalised, the mono mix has a peak of at *)
(* most 0.85 through the fade, in the file generate_backing_track writes   *)
(* and in the left channel generate_full_track returns; the right channel  *)
(* of generate_full_track, which receives 0.15 times the delayed pads      *)
(* after the normalisation, stays within 0.85 + 0.15 * max|pads|.          *)
C4_PeakOfMix ==
    /\ \A w \in Workers :
          /\ pc[w] \in PostNormalise => PeakOK(buf[w].mix)
          /\ pc[w] = "returned" =>
                \A i \in 1..Len(buf[w].right.n) :
                    Abs(buf[w].right.n[i]) <=
                        (340 + 3 * SeqMax(buf[w].synth.n)) * (buf[w].right.d \div 400)
    /\ \A path \in DOMAIN fs : PeakOK(fs[path].frames)

(* C4 witness: a faded mix still touches 0.85 *)
C4_Witness ==
    \E w \in Workers :
        /\ pc[w] \in {"open", "stereo"}
        /\ \E i \in 1..Len(buf[w].mix.n) :
              Abs(buf[w].mix.n[i]) = 17 * (buf[w].mix.d \div 20)

(* C5 (as claimed): the audio URL of a response is                         *)
(* /static/audio/music/track-<track_id>.wav for the track_id of that same  *)
(* response, also when the request omits mood.                             *)
C5_UrlMatchesTrackId ==
    \A w \in Workers :
        pc[w] = "responded" => resp[w].audio_url = AudioUrl(resp[w].track_id)

(* C6 (as claimed): a track-<id>.wav path is at every instant absent or    *)
(* holds one complete render, and the reader never observes a partially    *)
(* written file.                                                           *)
C6_NoTornRead ==
    /\ \A path \in DOMAIN fs : Complete(fs[path])
    /\ seen # "partial"

ProvidedSections(req) == IF req.sections = <<>> THEN <<>> ELSE req.sections[1]

(* C7 (as claimed): the response has len(request.sections) sections when   *)
(* the request provides sections and 7 otherwise; the i-th returned        *)
(* section carries the i-th requested name.                                *)
C7_SectionCount ==
    \A w \in Workers :
        pc[w] = "responded" =>
            IF job[w].sections # <<>>
            THEN /\ Len(resp[w].sections) = Len(ProvidedSections(job[w]))
                 /\ \A i \in 1..Len(resp[w].sections) :
                       resp[w].sections[i].name = NameStr(ProvidedSections(job[w])[i])
            ELSE Len(resp[w].sections) = 7

(* C7 (amended): the response has len(request.sections) sections, the i-th *)
(* carrying the i-th requested name, when the request provides a non-empty *)
(* list; it has the 7 default sections when sections is absent or empty.   *)
C7_SectionCountNonEmpty ==
    \A w \in Workers :
        pc[w] = "responded" =>
            IF Len(ProvidedSections(job[w])) > 0
            THEN /\ Len(resp[w].sections) = Len(ProvidedSections(job[w]))
                 /\ \A i \in 1..Len(resp[w].sections) :
                       resp[w].sections[i].name = NameStr(ProvidedSections(job[w])[i])
            ELSE /\ Len(resp[w].sections) = 7
                 /\ resp[w].sections[1].name = "Intro"
                 /\ resp[w].sections[7].name = "Outro"

(* C7 witness: a response to a request naming a section of no known class  *)
C7_Witness ==
    \E w \in Workers :
        /\ pc[w] = "responded"
        /\ \E i \in 1..Len(ProvidedSections(job[w])) :
              SectionClass(ProvidedSections(job[w])[i]) = "generic"

ListedKnown(req) ==
    {i \in 1..Len(req.artist_influences) : NormKey(req.artist_influences[i]) \in ArtistKeys}

(* the profile the spec's resolver gives the i-th listed name: its own, or *)
(* depeche_mode's on a registry miss                                       *)
ListedProfile(req, i) ==
    IF i \in ListedKnown(req)
    THEN ARTIST_DATABASE[NormKey(req.artist_influences[i])]
    ELSE ARTIST_DATABASE[DEFAULT_ARTIST]

(* the profiles the code blends: those of the listed names found in the    *)
(* registry, or depeche_mode's alone when none is found                    *)
BlendedProfiles(req) ==
    IF ListedKnown(req) = {}
    THEN {ARTIST_DATABASE["depeche_mode"]}
    ELSE {ARTIST_DATABASE[NormKey(req.artist_influences[i])] : i \in ListedKnown(req)}

Blending(w) ==
    /\ pc[w] = "responded"
    /\ Len(job[w].artist_influences) >= 2

(* C8 (as claimed): for a request listing several artists, the response's  *)
(* instruments (when the request names none) are exactly the union of the  *)
(* instrument lists of every listed artist's profile, its tempo (when the  *)
(* request gives none) is the midpoint of the mean of the tempo minima and *)
(* the mean of the tempo maxima, and a request tempo_bpm is returned as is.*)
C8_BlendExact ==
    \A w \in Workers :
        Blending(w) =>
            LET req == job[w]
                n == Len(req.artist_influences)
                lo == SeqSum([i \in 1..n |-> ListedProfile(req, i).tempo_range[1]])
                hi == SeqSum([i \in 1..n |-> ListedProfile(req, i).tempo_range[2]])
            IN  /\ OrSeq(req.instruments, <<>>) = <<>> =>
                      resp[w].instruments =
                          UNION {Range(ListedProfile(req, i).instruments) : i \in 1..n}
                /\ OrInt(req.tempo_bpm, 0) = 0 => 2 * n * resp[w].tempo_bpm = lo + hi
                /\ OrInt(req.tempo_bpm, 0) # 0 => resp[w].tempo_bpm = req.tempo_bpm[1]

(* C8 (amended): for a request listing several artists, the response's     *)
(* instruments (when the request names none) are exactly the union of the  *)
(* instrument lists of the listed artists found in the registry (of        *)
(* depeche_mode alone when none is found), its tempo (when the request     *)
(* gives none) is floor((floor(mean minimum) + floor(mean maximum)) / 2)   *)
(* over those artists, and a request tempo_bpm is returned as is.          *)
C8_BlendFloored ==
    \A w \in Workers :
        Blending(w) =>
            LET req == job[w]
                known == ListedKnown(req)
                n == IF known = {} THEN 1 ELSE Cardinality(known)
                names == req.artist_influences
                lo == IF known = {} THEN 110
                      ELSE SeqSum([i \in 1..Len(names) |->
                               IF i \in known THEN ListedProfile(req, i).tempo_range[1] ELSE 0])
                hi == IF known = {} THEN 125
                      ELSE SeqSum([i \in 1..Len(names) |->
                               IF i \in known THEN ListedProfile(req, i).tempo_range[2] ELSE 0])
                t == resp[w].tempo_bpm
            IN  /\ OrSeq(req.instruments, <<>>) = <<>> =>
                      \A x \in resp[w].instruments \cup
                                UNION {Range(ARTIST_DATABASE[k].instruments) : k \in ArtistKeys} :
                          x \in resp[w].instruments <=>
                              \E prof \in BlendedProfiles(req) : x \in Range(prof.instruments)
                /\ OrInt(req.tempo_bpm, 0) = 0 =>
                      \E a, b \in 60..200 :
                          /\ n * a <= lo /\ lo < n * (a + 1)
                          /\ n * b <= hi /\ hi < n * (b + 1)
                          /\ 2 * t <= a + b /\ a + b < 2 * t + 2
                /\ OrInt(req.tempo_bpm, 0) # 0 => t = req.tempo_bpm[1]

(* C8 witness: a blend of two different registry artists with neither      *)
(* tempo nor instruments in the request                                    *)
C8_Witness ==
    \E w \in Workers :
        /\ Blending(w)
        /\ job[w].tempo_bpm = <<>> /\ job[w].instruments = <<>>
        /\ Cardinality(BlendedProfiles(job[w])) >= 2

HasUnknown(req) == ListedKnown(req) # 1..Len(req.artist_influences)

FirstKnownProfile(req) ==
    IF ListedKnown(req) = {}
    THEN ARTIST_DATABASE["depeche_mode"]
    ELSE LET first == CHOOSE i \in ListedKnown(req) : \A j \in ListedKnown(req) : i <= j
         IN  ARTIST_DATABASE[NormKey(req.artist_influences[first])]

C10_SidechainKept ==
    \A w \in Workers :
        (pc[w] = "normalise" /\ par[w].params.use_sidechain /\ par[w].params.use_gated_reverb) =>
            SameAudio(buf[w].mix,
                      ApplySidechain(
                          SumTracks(buf[w].kick, buf[w].snare, buf[w].hihat, buf[w].bass,
                                    buf[w].synth, buf[w].arp,
                                    "arpeggiator" \in par[w].params.instruments),
                          buf[w].kick))

(* the section map as the contract states it: the level, in tenths, of the *)
(* drum kit, the bass, the pad and the lead in a section of each kind      *)
StatedLevels ==
    [intro |-> [drums |-> 5, bass |-> 0, pad |-> 10, lead |-> 0],
     bridge |-> [drums |-> 5, bass |-> 0, pad |-> 10, lead |-> 0],
     outro |-> [drums |-> 5, bass |-> 0, pad |-> 10, lead |-> 0],
     verse |-> [drums |-> 10, bass |-> 10, pad |-> 10, lead |-> 0],
     loop |-> [drums |-> 10, bass |-> 10, pad |-> 10, lead |-> 0],
     pre_chorus |-> [drums |-> 10, bass |-> 10, pad |-> 10, lead |-> 6],
     chorus |-> [drums |-> 10, bass |-> 10, pad |-> 10, lead |-> 10],
     drop |-> [drums |-> 10, bass |-> 10, pad |-> 0, lead |-> 10]]

(* C11: after the section mix of generate_full_track, at every slot inside *)
(* the window of a section the map names, the mix is exactly the sum of    *)
(* the tracks the map gives that section: the drum kit (kick, snare and    *)
(* the hi-hat at 0.7) at 1.0, or at 0.5 as light_drums; bass and pad at    *)
(* 1.0; the lead at 1.0, or at 0.6 as light_lead; and nothing else.        *)
C11_SectionTracks ==
    \A w \in Workers :
        pc[w] = "duck" =>
            LET wins == SectionWindows(job[w].structure, 0, BufLen)
                b == buf[w]
            IN  \A k \in 1..Len(wins) :
                    Lower(wins[k].name) \in DOMAIN StatedLevels =>
                        LET lv == StatedLevels[Lower(wins[k].name)]
                        IN  \A j \in (wins[k].start + 1)..wins[k].end :
                                b.mix.n[j] * 2000 =
                                    b.mix.d *
                                    ( lv.drums * (10 * b.kick.n[j] + 10 * b.snare.n[j]
                                                  + 7 * b.hihat.n[j])
                                    + lv.bass * 10 * b.bass.n[j]
                                    + lv.pad * 10 * b.synth.n[j]
                                    + lv.lead * 10 * b.lead.n[j] )

(* C11 witness: a mixed pre_chorus (light lead) followed by a chorus *)
C11_Witness ==
    \E w \in Workers :
        /\ pc[w] = "duck"
        /\ LET wins == SectionWindows(job[w].structure, 0, BufLen)
           IN  /\ Len(wins) >= 2
               /\ wins[1].name = "pre_chorus"
               /\ wins[2].name = "chorus"
               /\ buf[w].lead.n[wins[1].end] # 0
               /\ buf[w].kick.n[wins[1].start + 1] # 0

(* ------------------------- the producer plan --------------------------- *)
(* a plan has been built; Built is its config as build_producer_plan       *)
(* returned it (tempo, key and energy are never written again)             *)
HasPlan == mode = "plan" /\ plans # <<>>
Built == plans[1].config

(* C12 as stated: whenever the slow rule and the tiktok rule both fire on  *)
(* a request without a tempo, build_producer_plan returns tempo 110 and    *)
(* the energy curve hook_first.                                            *)
C12_TikTokFloorWins ==
    (HasPlan /\ preq.tempo_bpm = None /\ SlowRule(preq) /\ TikTokRule(preq)) =>
        (Built.tempo_bpm = 110 /\ Built.energy_curve = "hook_first")

(* C12 amended: on such a request the tiktok floor always wins over the    *)
(* slow cap, so the tempo is 110 unless a fast keyword raised it to 120    *)
(* first, and a background usage caps it at 100 afterwards; the energy     *)
(* curve is hook_first unless the usage context (background, longform,     *)
(* full_song) overrides it.                                                *)
C12_FloorAfterCap ==
    (HasPlan /\ preq.tempo_bpm = None /\ SlowRule(preq) /\ TikTokRule(preq)) =>
        /\ Built.tempo_bpm = IF BackgroundRule(preq) THEN 100
                             ELSE IF FastRule(preq) THEN 120 ELSE 110
        /\ Built.energy_curve = IF LongRule(preq) THEN "dynamic"
                                ELSE IF BackgroundRule(preq) THEN "steady"
                                ELSE "hook_first"

(* C12 witness: "slow emotional tiktok hook" for tiktok, no tempo given *)
C12_Witness ==
    /\ HasPlan
    /\ preq.influence_text = Some(<<"slow", "emotional", "tiktok", "hook">>)
    /\ preq.usage_context = Some("tiktok")
    /\ preq.tempo_bpm = None
    /\ Built.tempo_bpm = 110
    /\ Built.energy_curve = "hook_first"

(* the plan the last call returned, and the structure list it refers to;   *)
(* JustBuilt: build_producer_plan has returned and no refiner has run      *)
JustBuilt == HasPlan /\ Len(plans) = 1
Refined == HasPlan /\ Len(plans) >= 2
Last == plans[Len(plans)].config
LastStructure == lists[Last.structure]

C14_BackgroundPlan ==
    (HasPlan /\ BackgroundRule(preq)) =>
        /\ Last.energy_curve = "steady"
        /\ LastStructure = <<"loop">>
        /\ Last.tempo_bpm <= 100

(* C14 amended: the plan build_producer_plan returns for a background     *)
(* request has steady, [loop] and tempo <= 100 whatever else the request   *)
(* contains; a refiner pass returns steady_ambient and [loop, variation,   *)
(* loop] instead, and a tempo of 125 when the text has an energetic word.  *)
C14_BackgroundRules ==
    /\ (JustBuilt /\ BackgroundRule(preq)) =>
          /\ Last.energy_curve = "steady"
          /\ LastStructure = <<"loop">>
          /\ Last.tempo_bpm <= 100
    /\ (Refined /\ BackgroundRule(preq)) =>
          /\ Last.energy_curve = "steady_ambient"
          /\ LastStructure = <<"loop", "variation", "loop">>
          /\ IF EnergeticRule(preq) THEN Last.tempo_bpm = 125 ELSE Last.tempo_bpm <= 100

(* C14 witness: a background request with tiktok and slow keywords and a   *)
(* tempo of 200, built (capped at 100, steady, [loop]) and then refined    *)
C14_Witness ==
    /\ Refined
    /\ preq.usage_context = Some("Background")
    /\ preq.tempo_bpm = Some(200)
    /\ TikTokRule(preq) /\ SlowRule(preq)
    /\ Built.energy_curve = "steady"
    /\ Built.tempo_bpm = 100
    /\ Last.energy_curve = "steady_ambient"

(* C15: a request has no tempo or one in 60..200; the tempo of the plan    *)
(* build_producer_plan returns, and of the plan every later refiner pass   *)
(* returns, is in 60..200.                                                 *)
C15_TempoInRange ==
    HasPlan =>
        /\ preq.tempo_bpm # None => preq.tempo_bpm[1] \in 60..200
        /\ \A k \in 1..Len(plans) : plans[k].config.tempo_bpm \in 60..200

(* C15 witness: a request at 60 BPM with a slow and an energetic keyword,  *)
(* built at 60 and refined twice to 125                                    *)
C15_Witness ==
    /\ HasPlan
    /\ Len(plans) >= 3
    /\ preq.tempo_bpm = Some(60)
    /\ SlowRule(preq) /\ EnergeticRule(preq)
    /\ Built.tempo_bpm = 60
    /\ plans[2].config.tempo_bpm = 125
    /\ Last.tempo_bpm = 125

(* C16 as stated: a refiner pass on an already-refined plan returns a plan *)
(* equal to the plan it was given, in config and in summary.               *)
C16_Idempotent ==
    [][\A k \in 2..(MaxPasses + 1) :
          RefinePlan(k) =>
              /\ [plans'[Len(plans')] EXCEPT !.config.structure = lists'[@]].config
                     = Deref(plans[k]).config
              /\ plans'[Len(plans')].summary = plans[k].summary]_vars

C18_TitleNonEmpty ==
    \A w \in Workers :
        pc[w] = "responded" => Len(resp[w].title) > 0

(* ------------------------- generate_full_track ------------------------- *)
(* the stage that follows each stage of a render *)
StageAfter ==
    [drums |-> "bass", bass |-> "pads", pads |-> "lead", lead |-> "mix", mix |-> "duck",
     duck |-> "level", level |-> "fades", fades |-> "stereo", stereo |-> "returned"]

(* a step of the render of worker w *)
TrackStep(w) == pc[w] \in DOMAIN StageAfter /\ pc'[w] # pc[w]

(* the same samples, whatever the denominators *)
SameSamples(a, b) ==
    /\ Len(a.n) = Len(b.n)
    /\ \A j \in 1..Len(a.n) : a.n[j] * b.d = b.n[j] * a.d

GatedStyle(style) ==
    style \in DOMAIN ARTIST_DATABASE /\ ARTIST_DATABASE[style].use_gated_reverb

C20_SlowCap85 ==
    (/\ JustBuilt
     /\ AnyIn(PlanText(preq), {<<"slow">>, <<"ballad">>, <<"intimate">>, <<"soft">>})
     /\ ~FastRule(preq) /\ ~TikTokRule(preq)
     /\ ~BackgroundRule(preq) /\ ~LongRule(preq)) =>
        /\ Last.tempo_bpm = Min(OrInt(preq.tempo_bpm, 100), 85)
        /\ Last.energy_curve = "slow_build"

(* C20 amended: build_producer_plan's slow rule fires on slow, ballad,     *)
(* emotional or intimate, caps the tempo at 90 and sets slow_build; the    *)
(* cap at 85 is the refiner's, which fires on ballad, slow, intimate or    *)
(* soft and leaves the energy curve as it was.                             *)
C20_SlowCaps ==
    /\ (/\ JustBuilt
        /\ AnyIn(PlanText(preq), {<<"slow">>, <<"ballad">>, <<"emotional">>, <<"intimate">>})
        /\ ~FastRule(preq) /\ ~TikTokRule(preq)) =>
          /\ Last.tempo_bpm = Min(OrInt(preq.tempo_bpm, 100), 90)
          /\ (~BackgroundRule(preq) /\ ~LongRule(preq)) => Last.energy_curve = "slow_build"
    /\ (/\ Refined
        /\ AnyIn(PlanText(preq), {<<"ballad">>, <<"slow">>, <<"intimate">>, <<"soft">>})
        /\ ~EnergeticRule(preq)) =>
          /\ Last.tempo_bpm = Min(Built.tempo_bpm, 85)
          /\ (~MassiveRule(preq) /\ ~ViralRule(preq) /\ ~FullSongRule(preq)
                /\ ~BackgroundRule(preq)) => Last.energy_curve = Built.energy_curve

(* C20 witness: "ballad" with no tempo: built at 90 with slow_build, and   *)
(* at 85 only after a refiner pass                                         *)
C20_Witness ==
    /\ Refined
    /\ preq.influence_text = Some(<<"ballad">>)
    /\ preq.tempo_bpm = None
    /\ preq.usage_context = None
    /\ Built.tempo_bpm = 90
    /\ Built.energy_curve = "slow_build"
    /\ Last.tempo_bpm = 85
    /\ Last.energy_curve = "slow_build"

(* ------------------------------- C21 ----------------------------------- *)
(* no artist rule after the eminem rule fires *)
NoLaterArtist(req) ==
    /\ ~Mentions(req, <<"depeche", "mode">>) /\ ~Mentions(req, <<"gary", "numan">>)
    /\ ~Mentions(req, <<"kraftwerk">>) /\ ~Mentions(req, <<"pet", "shop", "boys">>)

(* tempo_bpm when the eminem rule reads it is the default of 100: none of  *)
(* the slow, fast, tiktok and linkin park rules has changed it             *)
TempoStillDefault(req) ==
    /\ OrInt(req.tempo_bpm, 100) = 100
    /\ ~SlowRule(req) /\ ~FastRule(req) /\ ~TikTokRule(req)
    /\ ~Mentions(req, <<"linkin", "park">>)

DropWords(req) == AnyIn(PlanText(req), {<<"drop">>, <<"buildup">>, <<"crescendo">>})

(* "build" occurs in the list exactly once, immediately before the last   *)
(* element                                                                 *)
BuildBeforeLast(list) ==
    /\ Len(list) >= 2
    /\ {i \in 1..Len(list) : list[i] = "build"} = {Len(list) - 1}

(* C22 as stated: after the refiner has run on a request whose text        *)
(* contains drop, buildup or crescendo, the returned plan's structure      *)
(* contains "build" exactly once, immediately before its last element.     *)
C22_BuildInReturned ==
    (Refined /\ DropWords(preq)) => BuildBeforeLast(LastStructure)

(* C22 amended: that holds when none of the later structure rules (viral,  *)
(* full song, background) fires: the structure is then the built one with  *)
(* one "build" before its last element, however many passes have run (a    *)
(* pass that finds "build" leaves the list alone).  When one of those      *)
(* rules fires the returned structure is the list of that rule, which      *)
(* holds no "build".                                                       *)
C22_BuildUnlessRebound ==
    (Refined /\ DropWords(preq)) =>
        IF Rebinds(preq)
        THEN "build" \notin Range(LastStructure)
        ELSE /\ BuildBeforeLast(LastStructure)
             /\ LastStructure = InsertBeforeLast(BuildStructure(preq), "build")

(* two passes over "massive drop" with no usage: the second pass found     *)
(* "build" and left the list alone                                         *)
C22_Witness ==
    /\ HasPlan /\ Len(plans) = 3
    /\ DropWords(preq) /\ ~Rebinds(preq)
    /\ LastStructure = <<"intro", "verse", "chorus", "verse", "chorus", "build", "outro">>

(* ------------------------------- C23 ----------------------------------- *)
(* the voice a drum machine name selects in generate_kick and              *)
(* generate_snare: "808", "909", and the acoustic voice for any other name *)
DrumVoice(drum_machine) ==
    IF drum_machine \in {"808", "909"} THEN drum_machine ELSE "acoustic"

(* the drum machine the registry names for a style, 808 for a style the    *)
(* registry does not hold                                                  *)
RegistryDrumMachine(artist_style) ==
    IF artist_style \in ArtistKeys THEN ARTIST_DATABASE[artist_style].drum_machine
    ELSE "808"

(* C23: while generate_full_track renders a plan, the drum voice it uses   *)
(* is the voice of the drum machine the registry names for the plan's      *)
(* artist_style (linn_drum being the acoustic voice), and 808 for a style  *)
(* the registry does not hold.                                             *)
C23_DrumMachineFromRegistry ==
    \A w \in Procs(mode) :
        InTrack(w) =>
            DrumVoice(par[w].drum_style) =
                DrumVoice(RegistryDrumMachine(job[w].artist_style))

(* ------------------------------- C24 ----------------------------------- *)
(* the scales and the numerals as the claim tables them, written out       *)
(* independently of the operators above                                    *)
StatedScale(scale_name) ==
    IF scale_name = "major" THEN <<0, 2, 4, 5, 7, 9, 11>>
    ELSE IF scale_name = "dorian" THEN <<0, 2, 3, 5, 7, 9, 10>>
    ELSE <<0, 2, 3, 5, 7, 8, 10>>
StatedDegree(roman) ==
    LET numerals == <<{"i", "I"}, {"ii", "II"}, {"iii", "III"}, {"iv", "IV"},
                      {"v", "V"}, {"vi", "VI"}, {"vii", "VII"}>>
    IN  IF \E d \in 1..7 : roman \in numerals[d]
        THEN (CHOOSE d \in 1..7 : roman \in numerals[d]) - 1
        ELSE 0

(* C24: roman_to_semitones returns the scale degrees d, d+2 and d+4        *)
(* (indices modulo the scale length), each raised by whole octaves so that *)
(* root < third < fifth and the chord spans less than two octaves; a       *)
(* numeral that is none of i..vii in either case counts as degree 0 and a  *)
(* scale name other than the three as natural_minor.                       *)
C24_TriadFromDegrees ==
    (mode = "chord" /\ chord.triad # None) =>
        LET scale == StatedScale(chord.scale_name)
            d == StatedDegree(chord.roman)
            t == chord.triad[1]
            At(k) == scale[((d + k) % 7) + 1]
        IN  /\ Len(t) = 3
            /\ t[1] = At(0)
            /\ t[2] \in {At(2), At(2) + 12}
            /\ t[3] \in {At(4), At(4) + 12}
            /\ t[1] < t[2] /\ t[2] < t[3]

(* "vi" over dorian: the third and the fifth are both raised an octave *)
C24_Witness ==
    /\ mode = "chord"
    /\ chord.roman = "vi" /\ chord.scale_name = "dorian"
    /\ chord.triad = Some(<<9, 12, 15>>)

(* a numeral and a scale the tables do not hold *)
C24_WitnessUnknown ==
    /\ mode = "chord"
    /\ chord.roman = "Vi" /\ chord.scale_name = "harmonic_minor"
    /\ chord.triad = Some(<<0, 3, 7>>)

(* ------------------------------- C25 ----------------------------------- *)
(* the slices a sequencer with the given step leaves on a returned track:  *)
(* one per step i with pattern[i mod L] = 1 and i * step < N, in order,    *)
(* from i * step to that plus the length of the one-shot, cut at N         *)
RECURSIVE StatedSlices(_, _, _, _, _)
StatedSlices(pattern, step, num, length, i) ==
    IF i * step >= num THEN <<>>
    ELSE (IF pattern[(i % Len(pattern)) + 1] = 1
          THEN <<(<<i * step, Min(i * step + length, num)>>)>> ELSE <<>>)
         \o StatedSlices(pattern, step, num, length, i + 1)

(* C25 as stated: a returned track holds a one-shot at sample              *)
(* i * step_size exactly for the steps i with pattern[i mod L] = 1 and     *)
(* i * step_size < N, with step_size = round(60 * 44100 / bpm), each cut   *)
(* at N, and has N samples.                                                *)
C25_RoundedStep ==
    (mode = "drums" /\ walk.returned) =>
        /\ walk.track.len = walk.num_samples
        /\ walk.track.slices =
              StatedSlices(walk.pattern, samples_per_beat_Rounded(walk.tempo_bpm),
                           walk.num_samples, KickLength(walk.style), 0)

(* the same with step_size = floor(60 * 44100 / bpm), and on every turn    *)
(* of the loop the slices made so far are those of the steps before        *)
(* beat_index                                                              *)
FlooredStep ==
    mode = "drums" =>
        LET step == (60 * 44100) \div walk.tempo_bpm
            all == StatedSlices(walk.pattern, step, walk.num_samples,
                                KickLength(walk.style), 0)
        IN  /\ step > 0
            /\ walk.current_sample = walk.beat_index * step
            /\ walk.track.len = walk.num_samples
            /\ walk.track.slices = SubSeq(all, 1, Len(walk.track.slices))
            /\ \A k \in 1..Len(walk.track.slices) :
                   /\ walk.track.slices[k][1] < walk.track.slices[k][2]
                   /\ walk.track.slices[k][2] <= walk.num_samples
            /\ walk.returned => walk.track.slices = all

(* C25 amended: the step is int(60 * 44100 / bpm), the quotient rounded    *)
(* down; with that step the track a call returns holds exactly the slices  *)
(* stated, each cut at N, and has N samples; and every call returns.       *)
C25_FlooredStep ==
    /\ []FlooredStep
    /\ (mode = "drums") ~> (mode = "drums" /\ walk.returned)

(* 130 BPM over 50000 samples of the 808: three beats 20353 samples apart, *)
(* the one-shot of the third cut at the end of the track                   *)
C25_Witness ==
    /\ mode = "drums" /\ walk.returned
    /\ walk.tempo_bpm = 130 /\ walk.pattern = <<1>> /\ walk.style = "808"
    /\ walk.track.slices = <<(<<0, 17640>>), (<<20353, 37993>>), (<<40706, 50000>>)>>

(* ------------------------------- C26 ----------------------------------- *)
(* C26: a call of the refiner leaves the plan it is given as it was: the   *)
(* config of that plan, the structure list the config refers to included,  *)
(* and its summary are the same after the call as before it.               *)
C26_BasePlanUntouched ==
    [][\A k \in 1..(MaxPasses + 1) :
          RefinePlan(k) =>
              [plans'[k] EXCEPT !.config.structure = lists'[@]] = Deref(plans[k])]_vars

(* ------------------------------- C27 ----------------------------------- *)
(* C27: every section name in the structure of a plan that                 *)
(* build_producer_plan made or the refiner returned is a key of            *)
(* SECTION_DURATIONS and of SECTION_INSTRUMENTS, so that the section loop  *)
(* of generate_full_track never takes its defaults for it.                 *)
C27_SectionsKnown ==
    HasPlan =>
        \A k \in 1..Len(plans) :
            \A name \in Range(Deref(plans[k]).config.structure) :
                /\ Lower(name) \in DOMAIN SECTION_DURATIONS
                /\ Lower(name) \in DOMAIN SECTION_INSTRUMENTS

(* ------------------------------- C28 ----------------------------------- *)
(* the section loop of generate_full_track has run *)
Mixed(w) == pc[w] \in TrackStages \ {"drums", "bass", "pads", "lead", "mix"}

(* C28: the windows of the section mix follow the structure in order,      *)
(* start at sample 0, each start where the one before ended (so no two     *)
(* overlap), and none ends after num_samples; a window is as long as its   *)
(* section's bars unless the section would cross num_samples, in which     *)
(* case it ends at num_samples and is the last: the sections after it get  *)
(* no window; sections are left out only when the mix is full.             *)
C28_WindowsContiguous ==
    \A w \in Procs(mode) :
        Mixed(w) =>
            LET wins == par[w].windows
                num == par[w].num_samples
                bar == (4 * 60 * 44100) \div par[w].tempo_bpm
                structure == job[w].structure
            IN  /\ Len(wins) <= Len(structure)
                /\ \A k \in 1..Len(wins) :
                       /\ wins[k].name = structure[k]
                       /\ wins[k].start = (IF k = 1 THEN 0 ELSE wins[k - 1].end)
                       /\ wins[k].start < wins[k].end
                       /\ wins[k].end <= num
                       /\ \/ wins[k].end - wins[k].start = SectionDuration(structure[k]) * bar
                          \/ /\ wins[k].start + SectionDuration(structure[k]) * bar > num
                             /\ wins[k].end = num
                             /\ k = Len(wins)
                /\ Len(wins) < Len(structure) =>
                       (IF wins = <<>> THEN num = 0 ELSE wins[Len(wins)].end = num)

(* the six-section default structure at 100 BPM, capped at 60 s: the       *)
(* fourth section is clipped and the last two get no window                *)
C28_Witness ==
    /\ mode = "solo" /\ Mixed("w1")
    /\ Len(job["w1"].structure) = 6
    /\ par["w1"].num_samples = 2646000
    /\ Len(par["w1"].windows) = 4
    /\ par["w1"].windows[4] = [name |-> "verse", start |-> 2116800, end |-> 2646000]

(* ------------------------------- C29 ----------------------------------- *)
(* the parameters generate_backing_track renders a request with *)
RenderParams(req) == [tempo_bpm |-> RenderTempo(req), params |-> ResolveArtistParams(req)]

(* C29: when a render is about to write a track-<id>.wav path that an      *)
(* earlier render wrote, the two requests were rendered with the same      *)
(* parameters (tempo, resolved artists, instruments), so that no file is   *)
(* ever replaced by audio rendered from other parameters.                  *)
C29_ContentAddressed ==
    \A w \in Procs(mode) :
        (pc[w] = "open" /\ FilePath(job[w]) \in DOMAIN fs) =>
            RenderParams(fs[FilePath(job[w])].src) = RenderParams(job[w])

(* ------------------------------- C30 ----------------------------------- *)
(* C30: in a plan the refiner returned, the tempo and the key that the     *)
(* leading sentence "Tempo: <n> BPM in <key>." of the summary names are    *)
(* config.tempo_bpm and config.key of that plan.                           *)
C30_SummaryNamesConfig ==
    Refined =>
        \A k \in 2..Len(plans) :
            /\ plans[k].summary.tempo = plans[k].config.tempo_bpm
            /\ plans[k].summary.key = plans[k].config.key
====
